---- MODULE Spec2Model ----
(***************************************************************************)
(* Guideline loading and review orchestration of codeyak / code_reviewer.  *)
(*                                                                         *)
(* SpecLoad   : GuidelinesManager.load_guideline_sets                      *)
(*              (code_reviewer/core/guidelines/manager.py) driving the     *)
(*              YAML guideline parser and the include resolver over a      *)
(*              project directory and the built-in bundle directory.       *)
(* SpecReview : CodeReviewer.review_merge_request / review_local_changes   *)
(*              (codeyak/services/reviewer.py).                            *)
(***************************************************************************)
EXTENDS Integers, Sequences, FiniteSets, TLC

VARIABLES
    builtin,         \* built-in bundle directory: bundle name -> [exts, doc]
    project,         \* local configuration directory: file -> document
    vcs,             \* documents hosted in the VCS configuration directory
    pc,              \* position inside load_guideline_sets
    yaml_files,      \* the scanned project files (sorted)
    idx,             \* index of the next file of the for loop
    guideline_sets,  \* the dict being built: sequence of [name, guidelines]
    all_seen_ids,    \* ids seen so far in _load_project_guidelines
    raised,          \* the exception that escaped the load (NoError if none)
    parse_log,       \* every parse_file invocation that read a document
    rpc,             \* position inside the review entry point
    flow,            \* "mr" (review_merge_request) or "local"
    load_outcome,    \* what the guidelines provider will do: "ok" or "raise"
    diffs_empty,     \* whether the merge request carries no file diffs
    pending_sets,    \* guideline sets still to be reviewed
    llm_calls,       \* LLM calls issued so far
    comments,        \* comments posted so far
    total_original_violations,  \* violations returned by the LLM, before filtering
    total_filtered_violations,  \* violations post_feedback reported as posted
    review_error,    \* the error the review run ended with
    epc,             \* position of the guideline-entry / Guideline construction run
    doc_stem,        \* base filename of the document whose entries are parsed
    entries,         \* the document's guidelines list: [label, description]
    has_includes,    \* whether that document also has an includes list
    entry_result,    \* what parsing the entries gave: [err, index, guidelines]
    ctor_id,         \* the id handed to Guideline(...)
    ctor_description,\* the description handed to Guideline(...)
    ctor_result,     \* "none", "ok" or "ValidationError"
    ppc,             \* position of a single parse_file call
    parse_call,      \* its arguments: [file, allow_includes]
    parse_result,    \* its Result
    gpc,             \* position inside create_file_groups
    diffs,           \* its argument: FileDiffs as [path_len, content_len, tokens]
    diff_idx,        \* index of the next diff of the for loop
    groups,          \* the FileGroups appended so far
    current_batch,   \* files of the group being filled
    current_chars,   \* their total size
    group_id,        \* id of the group being filled
    fpc,             \* position inside _filter_existing_violations
    result_violations,   \* result.violations, the input list
    existing_comments,   \* the existing MRComments
    filtered_violations, \* violations of the returned ReviewResult
    filter_original_count, \* the original_count returned with it
    eng_pc,          \* position inside ReviewEngine.run
    eng_diffs,       \* what vcs.get_diff returns
    eng_fetch,       \* what vcs.get_comments will do: "ok" or "VCSFetchCommentsError"
    eng_server_comments,   \* the comments the server holds
    eng_existing_comments, \* existing_comments of the run
    eng_groups,      \* create_file_groups(diffs)
    eng_idx,         \* index of the group being analysed
    eng_result,      \* the ReviewResult the LLM returned for that group
    eng_llm_calls,   \* llm.generate calls so far
    eng_original_total,    \* total_original_violations of the run
    eng_filtered_total,    \* total_filtered_violations of the run
    eng_success,     \* the success comment: "none", "posted" or "failed"
    eng_error,       \* the exception that escaped the run
    pub_pc,          \* position inside _process_results / post_feedback
    pub_mode,        \* "engine" (_process_results) or "feedback" (post_feedback)
    pub_violations,  \* violations of the result being published
    pub_idx,         \* index of the next violation of the for loop
    pub_attempts,    \* the calls made on the VCS client, in order
    pub_posted_count,\* posted_count of post_feedback
    pub_return,      \* the value returned
    orc_pc,          \* position inside the run over guideline sets and batches
    orc_sets,        \* number of guideline sets loaded
    orc_batches,     \* number of diff batches
    orc_set_idx,     \* index of the set being reviewed
    orc_batch_idx,   \* index of the batch being reviewed
    orc_calls,       \* the llm.generate calls made, as <<set, batch>>, in order
    orc_published,   \* the <<set, batch>> results handed to publication, in order
    vf_outcome,      \* what vcs.get_codeyak_files will do: "ok" or "Exception"
    vf_files,        \* what _fetch_yaml_files_from_vcs returned
    gl_cache,        \* GitLabAdapter._mr_cache: entries [mr_iid, mr]
    gl_gets,         \* the project.mergerequests.get calls made: [mr_iid, outcome]
    gl_serial,       \* serial number of the next object the server hands out
    gl_ops,          \* adapter operations run so far
    gl_last,         \* the last operation: [op, mr_iid, mr]
    tx_pc,           \* position of the format-and-parse run
    tx_package,      \* whose MRComment parses: "codeyak" or "code_reviewer"
    tx_violation,    \* the GuidelineViolation being formatted
    tx_comment_id,   \* parse_guideline_id(to_comment())
    tx_general_id,   \* parse_guideline_id(to_general_comment())
    tx_file_line     \* parse_file_and_line(to_general_comment())

loadVars == <<builtin, project, vcs, pc, yaml_files, idx, guideline_sets,
              all_seen_ids, raised, parse_log>>
reviewVars == <<rpc, flow, load_outcome, diffs_empty, pending_sets,
                llm_calls, comments, total_original_violations,
                total_filtered_violations, review_error>>
entryVars == <<epc, doc_stem, entries, has_includes, entry_result,
               ctor_id, ctor_description, ctor_result>>
parseVars == <<ppc, parse_call, parse_result>>
groupVars == <<gpc, diffs, diff_idx, groups, current_batch, current_chars, group_id>>
filterVars == <<fpc, result_violations, existing_comments, filtered_violations,
                filter_original_count>>
unitVars == <<entryVars, parseVars, groupVars, filterVars>>
engineVars == <<eng_pc, eng_diffs, eng_fetch, eng_server_comments,
                eng_existing_comments, eng_groups, eng_idx, eng_result,
                eng_llm_calls, eng_original_total, eng_filtered_total,
                eng_success, eng_error>>
publishVars == <<pub_pc, pub_mode, pub_violations, pub_idx, pub_attempts,
                 pub_posted_count, pub_return>>
orcVars == <<orc_pc, orc_sets, orc_batches, orc_set_idx, orc_batch_idx,
             orc_calls, orc_published>>
fetchVars == <<vf_outcome, vf_files>>
cacheVars == <<gl_cache, gl_gets, gl_serial, gl_ops, gl_last>>
textVars == <<tx_pc, tx_package, tx_violation, tx_comment_id, tx_general_id, tx_file_line>>
sideVars == <<orcVars, fetchVars, cacheVars, textVars>>
lateVars == <<engineVars, publishVars, sideVars>>
earlyVars == <<loadVars, reviewVars, unitVars, sideVars>>
runVars == <<loadVars, reviewVars, unitVars, engineVars, publishVars>>
vars == <<builtin, project, vcs, pc, yaml_files, idx, guideline_sets,
          all_seen_ids, raised, parse_log, rpc, flow, load_outcome,
          diffs_empty, pending_sets, llm_calls, comments,
          total_original_violations, total_filtered_violations, review_error,
          epc, doc_stem, entries, has_includes, entry_result, ctor_id,
          ctor_description, ctor_result, ppc, parse_call, parse_result,
          gpc, diffs, diff_idx, groups, current_batch, current_chars, group_id,
          fpc, result_violations, existing_comments, filtered_violations,
          filter_original_count, lateVars>>

(***************************************************************************)
(* Values                                                                  *)
(***************************************************************************)
Labels == {"l1", "l2"}

File(dir, stem, ext) == [dir |-> dir, stem |-> stem, ext |-> ext]

\* An include reference "<scheme>:<name>".
Ref(scheme, name) == [scheme |-> scheme, name |-> name]

\* A YAML document: how reading it ends, its guideline labels, its includes.
OkDoc(labels, includes) == [status |-> "ok", labels |-> labels, includes |-> includes]
BadDoc(status) == [status |-> status, labels |-> <<>>, includes |-> <<>>]
Absent == BadDoc("absent")

\* A guideline id "<stem>/<label>".
GuidelineId(stem, label) == <<stem, label>>
NoId == <<>>

\* A file name or display name: "<scope>/<stem>.<ext>" with an optional
\* "->" include part; scope "" is the bare file name.
Name(scope, stem, ext) == [scope |-> scope, stem |-> stem, ext |-> ext, inc |-> <<>>]
NoName == Name("", "", "")

\* Exceptions: the class and what the message names.
Error(type, kind, id, where) == [type |-> type, kind |-> kind, id |-> id, where |-> where]
NoError == Error("none", "none", NoId, NoName)

\* codeyak/core/guidelines/exceptions.py: the GuidelinesLoadError family.
GuidelinesLoadErrorFamily ==
    {"GuidelinesLoadError", "BuiltinGuidelineNotFoundError", "GuidelineIncludeError"}

(***************************************************************************)
(* The environment: directories and the documents in them                  *)
(***************************************************************************)
BundleNames == {"default", "sec", "cq"}

\* Candidate files of the local configuration directory, in the order
\* sorted() gives their paths.
SortedNames == << <<"a", "yaml">>, <<"a", "yml">>, <<"sec", "yaml">> >>
ProjectNames == {SortedNames[i] : i \in 1..Len(SortedNames)}
VcsNames == { <<"v", "yaml">> }

ReadDoc(file) ==
    CASE file.dir = "builtin" -> builtin[file.stem].doc
      [] file.dir = "project" -> project[<<file.stem, file.ext>>]
      [] OTHER -> vcs[<<file.stem, file.ext>>]

(***************************************************************************)
(* Include resolver and YAML guideline parser                              *)
(***************************************************************************)
\* Variant: a known bundle name resolves without looking for its file.
ResolveBuiltinIncludeUnchecked(ref) ==
    IF ref.name \in DOMAIN builtin
    THEN [found |-> TRUE, file |-> File("builtin", ref.name, "yaml")]
    ELSE [found |-> FALSE, file |-> File("builtin", ref.name, "")]

\* "builtin:<name>" -> <name>.yaml, else <name>.yml, else not found.
ResolveBuiltinInclude(ref) ==
    IF ref.name \in DOMAIN builtin /\ "yaml" \in builtin[ref.name].exts
    THEN [found |-> TRUE, file |-> File("builtin", ref.name, "yaml")]
    ELSE IF ref.name \in DOMAIN builtin /\ "yml" \in builtin[ref.name].exts
    THEN [found |-> TRUE, file |-> File("builtin", ref.name, "yml")]
    ELSE [found |-> FALSE, file |-> File("builtin", ref.name, "")]

HasDuplicates(seq) == \E i, j \in 1..Len(seq) : i < j /\ seq[i] = seq[j]

\* What one parse_file call yields: the exception or the flattened
\* guidelines, the processed_files set as the call left it, and the
\* documents it read.
Result(err, guidelines, processed, log) ==
    [err |-> err, guidelines |-> guidelines, processed |-> processed, log |-> log]

PathName(file) == Name(file.dir, file.stem, file.ext)

RECURSIVE ParseFile(_, _, _, _)
RECURSIVE ParseIncludes(_, _, _)

\* Variant: the included document is parsed with its own includes enabled.
ParseIncludeNested(file, processed_files, depth) ==
    ParseFile(file, TRUE, processed_files, depth + 1)

\* Variant: the included document is parsed with a fresh processed_files set.
ParseIncludeFresh(file, processed_files, depth) ==
    ParseFile(file, FALSE, {}, depth + 1)

\* One include target: parsed with includes disabled, on the processed_files
\* set of the chain.
ParseInclude(file, processed_files, depth) ==
    ParseFile(file, FALSE, processed_files, depth + 1)

\* The includes of one document, in declaration order; every target is parsed
\* with allow_includes = FALSE and the processed_files set is shared.
ParseIncludes(refs, processed_files, depth) ==
    IF refs = <<>> THEN Result(NoError, <<>>, processed_files, <<>>)
    ELSE LET ref == Head(refs)
             target == ResolveBuiltinInclude(ref)
         IN IF ref.scheme # "builtin"
            THEN Result(Error("GuidelineIncludeError", "unsupported-include", NoId, NoName),
                        <<>>, processed_files, <<>>)
            ELSE IF ~target.found
            THEN Result(Error("BuiltinGuidelineNotFoundError", "builtin-not-found", NoId,
                              PathName(target.file)),
                        <<>>, processed_files, <<>>)
            ELSE LET r == ParseInclude(target.file, processed_files, depth)
                 IN IF r.err # NoError THEN r
                    ELSE LET rest == ParseIncludes(Tail(refs), r.processed, depth)
                         IN Result(rest.err,
                                   IF rest.err = NoError
                                   THEN r.guidelines \o rest.guidelines ELSE <<>>,
                                   rest.processed, r.log \o rest.log)

ParseFile(file, allow_includes, processed_files, depth) ==
    IF file \in processed_files
    THEN Result(Error("GuidelineIncludeError", "circular-include", NoId, PathName(file)),
                <<>>, processed_files, <<>>)
    ELSE LET processed == processed_files \cup {file}
             doc == ReadDoc(file)
             entry == << [file |-> file, depth |-> depth, allow_includes |-> allow_includes] >>
             Fail(type, kind) ==
                 Result(Error(type, kind, NoId, PathName(file)), <<>>, processed, entry)
         IN CASE doc.status \in {"not_found", "absent"} -> Fail("FileNotFoundError", "not-found")
              [] doc.status = "yaml_error" -> Fail("YAMLError", "yaml-syntax")
              [] doc.status = "value_error" -> Fail("ValueError", "malformed")
              [] OTHER ->
                  IF doc.labels = <<>> /\ doc.includes = <<>>
                  THEN Fail("ValueError", "no-guidelines")
                  ELSE IF HasDuplicates(doc.labels)
                  THEN Fail("ValueError", "duplicate-label")
                  ELSE LET local == [i \in 1..Len(doc.labels) |->
                                        GuidelineId(file.stem, doc.labels[i])]
                           inc == IF allow_includes
                                  THEN ParseIncludes(doc.includes, processed, depth)
                                  ELSE Result(NoError, <<>>, processed, <<>>)
                       IN Result(inc.err,
                                 IF inc.err = NoError THEN local \o inc.guidelines ELSE <<>>,
                                 inc.processed, entry \o inc.log)

(***************************************************************************)
(* GuidelinesManager (code_reviewer/core/guidelines/manager.py)            *)
(***************************************************************************)
\* _scan_project_yaml_files: the YAML files of the directory, sorted.
ScanProjectYamlFiles ==
    SelectSeq(SortedNames, LAMBDA n : project[n].status # "absent")

\* The except clauses around parse_file and _check_duplicate_ids.
WrapError(err, where) ==
    CASE err.type \in GuidelinesLoadErrorFamily -> err
      [] err.type = "YAMLError" -> Error("GuidelinesLoadError", "yaml-syntax", NoId, where)
      [] err.type = "ValueError" -> Error("GuidelinesLoadError", "invalid-format", NoId, where)
      [] OTHER -> err

\* Variant: ids are recorded and none is ever rejected.
CheckDuplicateIdsSkipped(guidelines, seen, filename) ==
    [err |-> NoError, seen |-> seen \cup {guidelines[i] : i \in 1..Len(guidelines)}]

\* _check_duplicate_ids: the first id already seen raises; ids are added as
\* they pass.
RECURSIVE CheckDuplicateIds(_, _, _)
CheckDuplicateIds(guidelines, seen, filename) ==
    IF guidelines = <<>> THEN [err |-> NoError, seen |-> seen]
    ELSE IF Head(guidelines) \in seen
    THEN [err |-> Error("GuidelinesLoadError", "duplicate-id", Head(guidelines), filename),
          seen |-> seen]
    ELSE CheckDuplicateIds(Tail(guidelines), seen \cup {Head(guidelines)}, filename)

\* guideline_sets[display_name] = file_guidelines
DictPut(dict, name, guidelines) ==
    IF \E i \in 1..Len(dict) : dict[i].name = name
    THEN [i \in 1..Len(dict) |->
            IF dict[i].name = name THEN [name |-> name, guidelines |-> guidelines]
            ELSE dict[i]]
    ELSE Append(dict, [name |-> name, guidelines |-> guidelines])

\* load_guideline_sets, lines 50-55: scan and choose the source.
Scan ==
    /\ pc = "start"
    /\ yaml_files' = ScanProjectYamlFiles
    /\ pc' = IF ScanProjectYamlFiles # <<>> THEN "project" ELSE "builtin"
    /\ idx' = 1
    /\ guideline_sets' = <<>>
    /\ all_seen_ids' = {}
    /\ UNCHANGED <<builtin, project, vcs, raised, parse_log>>
    /\ UNCHANGED reviewVars
    /\ UNCHANGED unitVars
    /\ UNCHANGED lateVars

\* _load_project_guidelines: one iteration of the loop over yaml_files.
LoadProjectFile ==
    /\ pc = "project"
    /\ idx <= Len(yaml_files)
    /\ LET n == yaml_files[idx]
           yaml_file == File("project", n[1], n[2])
           r == ParseFile(yaml_file, TRUE, {}, 0)
           chk == CheckDuplicateIds(r.guidelines, all_seen_ids, Name("", n[1], n[2]))
       IN /\ parse_log' = parse_log \o r.log
          /\ IF r.err # NoError
             THEN /\ raised' = WrapError(r.err, Name("", n[1], n[2]))
                  /\ pc' = "failed"
                  /\ UNCHANGED <<guideline_sets, all_seen_ids, idx>>
             ELSE IF chk.err # NoError
             THEN /\ raised' = chk.err
                  /\ pc' = "failed"
                  /\ all_seen_ids' = chk.seen
                  /\ UNCHANGED <<guideline_sets, idx>>
             ELSE /\ guideline_sets' =
                        DictPut(guideline_sets, Name("project", n[1], n[2]), r.guidelines)
                  /\ all_seen_ids' = chk.seen
                  /\ idx' = idx + 1
                  /\ UNCHANGED <<raised, pc>>
    /\ UNCHANGED <<builtin, project, vcs, yaml_files>>
    /\ UNCHANGED reviewVars
    /\ UNCHANGED unitVars
    /\ UNCHANGED lateVars

\* _load_project_guidelines: the loop is over, the dict is returned.
ReturnProject ==
    /\ pc = "project"
    /\ idx > Len(yaml_files)
    /\ pc' = "validate"
    /\ UNCHANGED <<builtin, project, vcs, yaml_files, idx, guideline_sets,
                   all_seen_ids, raised, parse_log>>
    /\ UNCHANGED reviewVars
    /\ UNCHANGED unitVars
    /\ UNCHANGED lateVars

\* _load_builtin_default
LoadBuiltinDefault ==
    /\ pc = "builtin"
    /\ LET ext == IF "yaml" \in builtin["default"].exts THEN "yaml" ELSE "yml"
           default_yaml == File("builtin", "default", ext)
           r == ParseFile(default_yaml, TRUE, {}, 0)
       IN IF ext \notin builtin["default"].exts
          THEN /\ raised' = Error("GuidelinesLoadError", "default-not-found", NoId, NoName)
               /\ pc' = "failed"
               /\ UNCHANGED <<guideline_sets, parse_log>>
          ELSE /\ parse_log' = parse_log \o r.log
               /\ IF r.err # NoError
                  THEN /\ raised' = WrapError(r.err, Name("builtin", "default", "yaml"))
                       /\ pc' = "failed"
                       /\ UNCHANGED guideline_sets
                  ELSE /\ guideline_sets' =
                             << [name |-> Name("builtin", "default", "yaml"),
                                 guidelines |-> r.guidelines] >>
                       /\ pc' = "validate"
                       /\ UNCHANGED raised
    /\ UNCHANGED <<builtin, project, vcs, yaml_files, idx, all_seen_ids>>
    /\ UNCHANGED reviewVars
    /\ UNCHANGED unitVars
    /\ UNCHANGED lateVars

\* _validate_guideline_sets, then the return of load_guideline_sets.
Validate ==
    /\ pc = "validate"
    /\ IF guideline_sets = <<>>
       THEN /\ raised' = Error("GuidelinesLoadError", "no-guidelines", NoId, NoName)
            /\ pc' = "failed"
       ELSE /\ pc' = "done"
            /\ UNCHANGED raised
    /\ UNCHANGED <<builtin, project, vcs, yaml_files, idx, guideline_sets,
                   all_seen_ids, parse_log>>
    /\ UNCHANGED reviewVars
    /\ UNCHANGED unitVars
    /\ UNCHANGED lateVars

(***************************************************************************)
(* CodeReviewer (codeyak/services/reviewer.py)                             *)
(***************************************************************************)
MaxSets == 2
MaxViolations == 2

\* Variant: the load error is swallowed and the review goes on.
MrLoadGuidelinesSwallowed ==
    /\ rpc = "mr_load"
    /\ rpc' = "mr_get"
    /\ \E n \in 1..MaxSets : pending_sets' = n
    /\ UNCHANGED <<flow, load_outcome, diffs_empty, llm_calls, comments,
                   total_original_violations, total_filtered_violations, review_error>>
    /\ UNCHANGED loadVars
    /\ UNCHANGED unitVars
    /\ UNCHANGED lateVars

\* review_merge_request: self.guidelines.load_guidelines_from_vcs(...)
MrLoadGuidelines ==
    /\ rpc = "mr_load"
    /\ IF load_outcome = "raise"
       THEN /\ rpc' = "aborted"
            /\ review_error' = "GuidelinesLoadError"
            /\ UNCHANGED pending_sets
       ELSE /\ rpc' = "mr_get"
            /\ \E n \in 1..MaxSets : pending_sets' = n
            /\ UNCHANGED review_error
    /\ UNCHANGED <<flow, load_outcome, diffs_empty, llm_calls, comments,
                   total_original_violations, total_filtered_violations>>
    /\ UNCHANGED loadVars
    /\ UNCHANGED unitVars
    /\ UNCHANGED lateVars

\* review_merge_request: self.code.get_merge_request(...), _start_trace
MrGetMergeRequest ==
    /\ rpc = "mr_get"
    /\ rpc' = "summary"
    /\ UNCHANGED <<flow, load_outcome, diffs_empty, pending_sets, llm_calls,
                   comments, total_original_violations,
                   total_filtered_violations, review_error>>
    /\ UNCHANGED loadVars
    /\ UNCHANGED unitVars
    /\ UNCHANGED lateVars

\* _generate_and_post_summary: one LLM call, one general comment.
GenerateAndPostSummary ==
    /\ rpc = "summary"
    /\ llm_calls' = llm_calls + 1
    /\ comments' = comments + 1
    /\ rpc' = "sets"
    /\ UNCHANGED <<flow, load_outcome, diffs_empty, pending_sets,
                   total_original_violations, total_filtered_violations,
                   review_error>>
    /\ UNCHANGED loadVars
    /\ UNCHANGED unitVars
    /\ UNCHANGED lateVars

\* _run_review: one iteration of the loop over guideline_sets: the LLM
\* call, the duplicate filter and post_feedback.
ReviewSet ==
    /\ rpc = "sets"
    /\ pending_sets > 0
    /\ llm_calls' = llm_calls + 1
    /\ \E original_count \in 0..MaxViolations :
         \E violations_count \in 0..original_count :
            /\ total_original_violations' = total_original_violations + original_count
            /\ total_filtered_violations' = total_filtered_violations + violations_count
            /\ comments' = comments + violations_count
    /\ pending_sets' = pending_sets - 1
    /\ UNCHANGED <<rpc, flow, load_outcome, diffs_empty, review_error>>
    /\ UNCHANGED loadVars
    /\ UNCHANGED unitVars
    /\ UNCHANGED lateVars

\* _run_review: post_review_summary after the loop.
PostReviewSummary ==
    /\ rpc = "sets"
    /\ pending_sets = 0
    /\ IF total_original_violations = 0
       THEN \E posted \in BOOLEAN : comments' = comments + (IF posted THEN 1 ELSE 0)
       ELSE UNCHANGED comments
    /\ rpc' = "complete"
    /\ UNCHANGED <<flow, load_outcome, diffs_empty, pending_sets, llm_calls,
                   total_original_violations, total_filtered_violations,
                   review_error>>
    /\ UNCHANGED loadVars
    /\ UNCHANGED unitVars
    /\ UNCHANGED lateVars

\* review_local_changes: get_merge_request and the empty-diff return.
LocalGetMergeRequest ==
    /\ rpc = "local_get"
    /\ rpc' = IF diffs_empty THEN "complete" ELSE "local_load"
    /\ UNCHANGED <<flow, load_outcome, diffs_empty, pending_sets, llm_calls,
                   comments, total_original_violations,
                   total_filtered_violations, review_error>>
    /\ UNCHANGED loadVars
    /\ UNCHANGED unitVars
    /\ UNCHANGED lateVars

\* review_local_changes: self.guidelines.load_guidelines_local()
LocalLoadGuidelines ==
    /\ rpc = "local_load"
    /\ IF load_outcome = "raise"
       THEN /\ rpc' = "aborted"
            /\ review_error' = "GuidelinesLoadError"
            /\ UNCHANGED pending_sets
       ELSE /\ rpc' = "sets"
            /\ \E n \in 1..MaxSets : pending_sets' = n
            /\ UNCHANGED review_error
    /\ UNCHANGED <<flow, load_outcome, diffs_empty, llm_calls, comments,
                   total_original_violations, total_filtered_violations>>
    /\ UNCHANGED loadVars
    /\ UNCHANGED unitVars
    /\ UNCHANGED lateVars

(***************************************************************************)
(* Specifications                                                          *)
(***************************************************************************)
ShippedDefault ==
    [exts |-> {"yaml"}, doc |-> OkDoc(<<>>, <<Ref("builtin", "sec"), Ref("builtin", "cq")>>)]
ShippedCq == [exts |-> {"yaml"}, doc |-> OkDoc(<<"l2">>, <<>>)]

DefaultDocs ==
    { ShippedDefault.doc,
      OkDoc(<<"l1">>, <<Ref("builtin", "sec")>>),
      OkDoc(<<>>, <<Ref("builtin", "default")>>),
      OkDoc(<<>>, <<Ref("builtin", "sec"), Ref("builtin", "sec")>>),
      OkDoc(<<"l1">>, <<>>) }

SecDocs ==
    { OkDoc(<<"l1">>, <<>>),
      OkDoc(<<"l1", "l2">>, <<>>),
      OkDoc(<<"l1">>, <<Ref("builtin", "default")>>),
      OkDoc(<<>>, <<Ref("builtin", "cq")>>),
      BadDoc("value_error") }

ProjectDocs ==
    { OkDoc(<<"l1">>, <<>>),
      OkDoc(<<"l1", "l2">>, <<>>),
      OkDoc(<<"l1", "l1">>, <<>>),
      OkDoc(<<"l1">>, <<Ref("builtin", "sec")>>),
      OkDoc(<<>>, <<Ref("builtin", "sec")>>),
      OkDoc(<<>>, <<Ref("builtin", "sec"), Ref("builtin", "sec")>>),
      OkDoc(<<>>, <<Ref("builtin", "nope")>>),
      OkDoc(<<>>, <<Ref("project", "x")>>),
      BadDoc("yaml_error"),
      BadDoc("value_error"),
      BadDoc("not_found") }

BuiltinDirs ==
    { [n \in BundleNames |->
         CASE n = "default" -> [exts |-> de, doc |-> dd]
           [] n = "sec" -> [exts |-> se, doc |-> sd]
           [] OTHER -> ShippedCq] :
      de \in SUBSET {"yaml", "yml"}, dd \in DefaultDocs,
      se \in {{}, {"yaml"}, {"yml"}}, sd \in SecDocs }

ProjectDirs ==
    { [n \in ProjectNames |->
         CASE n = <<"a", "yaml">> -> d1
           [] n = <<"a", "yml">> -> d2
           [] OTHER -> d3] :
      d1 \in ProjectDocs \cup {Absent},
      d2 \in {Absent, OkDoc(<<"l1">>, <<>>), OkDoc(<<"l2">>, <<Ref("builtin", "sec")>>)},
      d3 \in {Absent, OkDoc(<<"l1">>, <<>>), OkDoc(<<"l1">>, <<Ref("builtin", "sec")>>),
              OkDoc(<<"l2">>, <<Ref("builtin", "sec")>>)} }

EmptyProject == [n \in ProjectNames |-> Absent]
VcsDirs == [VcsNames -> {Absent, OkDoc(<<"l1">>, <<>>)}]

\* No guideline entries, parse call, grouping or filtering in progress.
EntryIdle ==
    /\ epc = "idle"
    /\ doc_stem = <<>>
    /\ entries = <<>>
    /\ has_includes = FALSE
    /\ entry_result = [err |-> "none", index |-> 0, guidelines |-> <<>>]
    /\ ctor_id = <<>>
    /\ ctor_description = [text |-> "", stripped_len |-> 0]
    /\ ctor_result = "none"

ParseIdle ==
    /\ ppc = "idle"
    /\ parse_call = [file |-> File("", "", ""), allow_includes |-> FALSE]
    /\ parse_result = Result(NoError, <<>>, {}, <<>>)

GroupIdle ==
    /\ gpc = "idle"
    /\ diffs = <<>>
    /\ diff_idx = 1
    /\ groups = <<>>
    /\ current_batch = <<>>
    /\ current_chars = 0
    /\ group_id = 1

FilterIdle ==
    /\ fpc = "idle"
    /\ result_violations = <<>>
    /\ existing_comments = <<>>
    /\ filtered_violations = <<>>
    /\ filter_original_count = 0

UnitsIdle == EntryIdle /\ ParseIdle /\ GroupIdle /\ FilterIdle

EngineIdle ==
    /\ eng_pc = "idle"
    /\ eng_diffs = <<>>
    /\ eng_fetch = "ok"
    /\ eng_server_comments = <<>>
    /\ eng_existing_comments = <<>>
    /\ eng_groups = <<>>
    /\ eng_idx = 1
    /\ eng_result = <<>>
    /\ eng_llm_calls = 0
    /\ eng_original_total = 0
    /\ eng_filtered_total = 0
    /\ eng_success = "none"
    /\ eng_error = "none"

PublishIdle ==
    /\ pub_pc = "idle"
    /\ pub_mode = "engine"
    /\ pub_violations = <<>>
    /\ pub_idx = 1
    /\ pub_attempts = <<>>
    /\ pub_posted_count = 0
    /\ pub_return = 0

OrcIdle ==
    /\ orc_pc = "idle"
    /\ orc_sets = 0
    /\ orc_batches = 0
    /\ orc_set_idx = 1
    /\ orc_batch_idx = 1
    /\ orc_calls = <<>>
    /\ orc_published = <<>>

FetchIdle ==
    /\ vf_outcome = "ok"
    /\ vf_files = <<>>

CacheIdle ==
    /\ gl_cache = {}
    /\ gl_gets = <<>>
    /\ gl_serial = 1
    /\ gl_ops = 0
    /\ gl_last = <<>>

TextIdle ==
    /\ tx_pc = "idle"
    /\ tx_package = "codeyak"
    /\ tx_violation = <<>>
    /\ tx_comment_id = <<>>
    /\ tx_general_id = <<>>
    /\ tx_file_line = <<>>

SideIdle == OrcIdle /\ FetchIdle /\ CacheIdle /\ TextIdle

LateIdle == EngineIdle /\ PublishIdle /\ SideIdle

ReviewIdle ==
    /\ rpc = "idle"
    /\ flow = "none"
    /\ load_outcome = "ok"
    /\ diffs_empty = FALSE
    /\ pending_sets = 0
    /\ llm_calls = 0
    /\ comments = 0
    /\ total_original_violations = 0
    /\ total_filtered_violations = 0
    /\ review_error = "none"

InitLoad ==
    /\ builtin \in BuiltinDirs
    /\ project \in ProjectDirs
    /\ project # EmptyProject => builtin["default"] = ShippedDefault
    /\ vcs \in VcsDirs
    /\ pc = "start"
    /\ yaml_files = <<>>
    /\ idx = 1
    /\ guideline_sets = <<>>
    /\ all_seen_ids = {}
    /\ raised = NoError
    /\ parse_log = <<>>
    /\ ReviewIdle
    /\ UnitsIdle
    /\ LateIdle

NextLoad ==
    \/ Scan
    \/ LoadProjectFile
    \/ ReturnProject
    \/ LoadBuiltinDefault
    \/ Validate

SpecLoad == InitLoad /\ [][NextLoad]_vars

\* One load over every built-in include graph, with at most one project
\* document; load_guideline_sets runs to its return or its raise once called.
InitIncludeGraphs ==
    /\ InitLoad
    /\ project[<<"a", "yml">>] = Absent
    /\ project[<<"sec", "yaml">>] = Absent
    /\ vcs = [n \in VcsNames |-> Absent]

SpecIncludeGraphs == InitIncludeGraphs /\ [][NextLoad]_vars /\ WF_vars(NextLoad)

InitReview ==
    /\ builtin = [n \in BundleNames |-> IF n = "default" THEN ShippedDefault ELSE ShippedCq]
    /\ project = EmptyProject
    /\ vcs = [n \in VcsNames |-> Absent]
    /\ pc = "start"
    /\ yaml_files = <<>>
    /\ idx = 1
    /\ guideline_sets = <<>>
    /\ all_seen_ids = {}
    /\ raised = NoError
    /\ parse_log = <<>>
    /\ flow \in {"mr", "local"}
    /\ rpc = IF flow = "mr" THEN "mr_load" ELSE "local_get"
    /\ load_outcome \in {"ok", "raise"}
    /\ diffs_empty \in BOOLEAN
    /\ pending_sets = 0
    /\ llm_calls = 0
    /\ comments = 0
    /\ total_original_violations = 0
    /\ total_filtered_violations = 0
    /\ review_error = "none"
    /\ UnitsIdle
    /\ LateIdle

NextReview ==
    \/ MrLoadGuidelines
    \/ MrGetMergeRequest
    \/ GenerateAndPostSummary
    \/ ReviewSet
    \/ PostReviewSummary
    \/ LocalGetMergeRequest
    \/ LocalLoadGuidelines

SpecReview == InitReview /\ [][NextReview]_vars

Spec == SpecLoad

(***************************************************************************)
(* Properties of the guideline load                                        *)
(***************************************************************************)
Range(seq) == {seq[i] : i \in 1..Len(seq)}

RECURSIVE FlattenSets(_)
FlattenSets(dict) ==
    IF dict = <<>> THEN <<>> ELSE Head(dict).guidelines \o FlattenSets(Tail(dict))

SetNames(dict) == {dict[i].name : i \in 1..Len(dict)}

IncludeName(scope, stem, ext, file) ==
    [scope |-> scope, stem |-> stem, ext |-> ext, inc |-> <<file.stem, file.ext>>]

\* The file a project or VCS document name denotes.
ProjectFile(n) == File("project", n[1], n[2])

OwnCollision(n) ==
    LET doc == project[n]
        r == ParseFile(ProjectFile(n), TRUE, {}, 0)
        local == {GuidelineId(n[1], doc.labels[i]) : i \in 1..Len(doc.labels)}
        included == IF r.err = NoError /\ Len(r.guidelines) > Len(doc.labels)
                    THEN {r.guidelines[i] : i \in (Len(doc.labels) + 1)..Len(r.guidelines)}
                    ELSE {}
    IN r.err = NoError /\ local \cap included # {}

\* C2: a document whose local guideline has the id of a guideline of one of
\* its own includes makes the load fail at that document with a
\* GuidelinesLoadError naming the duplicated id and the document's display
\* name "project/<filename>"; nothing is returned.
C2_OwnIncludeCollisionNamed ==
    /\ \A i \in 1..Len(yaml_files) : OwnCollision(yaml_files[i]) => idx <= i
    /\ (pc = "failed" /\ idx <= Len(yaml_files) /\ OwnCollision(yaml_files[idx])) =>
          /\ raised.type = "GuidelinesLoadError"
          /\ raised.kind = "duplicate-id"
          /\ raised.id \in Range(ParseFile(ProjectFile(yaml_files[idx]), TRUE, {}, 0).guidelines)
          /\ raised.where = Name("project", yaml_files[idx][1], yaml_files[idx][2])

\* The sets the display-name grammar prescribes for one top-level document.
ExpectedSets(scope, file) ==
    LET doc == ReadDoc(file)
        contributing ==
            {i \in 1..Len(doc.includes) :
                /\ ResolveBuiltinInclude(doc.includes[i]).found
                /\ ReadDoc(ResolveBuiltinInclude(doc.includes[i]).file).labels # <<>>}
    IN IF doc.includes = <<>>
       THEN {Name(scope, file.stem, file.ext)}
       ELSE {IncludeName(scope, file.stem, file.ext,
                         ResolveBuiltinInclude(doc.includes[i]).file) : i \in contributing}
            \cup (IF doc.labels # <<>> THEN {Name(scope, file.stem, file.ext)} ELSE {})

\* The top-level documents a finished load has read.
TopLevelFiles == {e.file : e \in {x \in Range(parse_log) : x.depth = 0}}

\* C3: every loaded document F of scope S yields the set "S/F" alone when it
\* has no includes, and otherwise one set "S/F-><include>" per contributing
\* include plus "S/F" exactly when F has local guidelines; no set is empty.
C3_SetNaming ==
    pc = "done" =>
        /\ SetNames(guideline_sets) =
              UNION {ExpectedSets(IF f.dir = "builtin" THEN "builtin" ELSE "project", f) :
                     f \in TopLevelFiles}
        /\ \A i \in 1..Len(guideline_sets) : guideline_sets[i].guidelines # <<>>

\* C4: load_guideline_sets returns at least one named set or fails with a
\* GuidelinesLoadError.
C4_NeverEmpty ==
    /\ pc = "done" => Len(guideline_sets) >= 1
    /\ pc = "failed" => raised.type \in GuidelinesLoadErrorFamily

VcsFiles == {File("vcs", n[1], n[2]) : n \in {m \in VcsNames : vcs[m].status # "absent"}}
LocalFiles == {ProjectFile(n) : n \in {m \in ProjectNames : project[m].status # "absent"}}

\* C5: the source is the VCS-hosted directory when it yields a YAML file,
\* else the local directory when it holds one, else the built-in default;
\* sources are never mixed.
C5_SourcePrecedence ==
    pc = "done" =>
        IF VcsFiles # {} THEN TopLevelFiles = VcsFiles
        ELSE IF LocalFiles # {} THEN TopLevelFiles = LocalFiles
        ELSE \A f \in TopLevelFiles : f.dir = "builtin" /\ f.stem = "default"

\* The document the load is at: the file of the current loop iteration, or
\* the built-in default.
DefaultFile ==
    File("builtin", "default", IF "yaml" \in builtin["default"].exts THEN "yaml" ELSE "yml")
CurrentFile ==
    IF yaml_files # <<>> THEN ProjectFile(yaml_files[idx]) ELSE DefaultFile
AtDocument ==
    IF yaml_files # <<>> THEN idx <= Len(yaml_files)
    ELSE builtin["default"].exts # {}

\* C7: whatever escapes a guideline load is a GuidelinesLoadError or a
\* subtype, and an error the parser or resolver raised as a subtype reaches
\* the caller unchanged.
C7_OnlyLoadErrorsEscape ==
    pc = "failed" =>
        /\ raised.type \in GuidelinesLoadErrorFamily
        /\ (AtDocument /\ ParseFile(CurrentFile, TRUE, {}, 0).err.type \in
                {"BuiltinGuidelineNotFoundError", "GuidelineIncludeError"})
              => raised = ParseFile(CurrentFile, TRUE, {}, 0).err

\* The file include k of a document resolves to, if it resolves.
IncludeTarget(doc, k) == ResolveBuiltinInclude(doc.includes[k])
ResolvesTo(doc, k, file) ==
    /\ doc.includes[k].scheme = "builtin"
    /\ IncludeTarget(doc, k).found
    /\ IncludeTarget(doc, k).file = file

\* Include k of the document resolves to the document itself or to the target
\* of an earlier include of it.
Revisits(file, k) ==
    LET doc == ReadDoc(file)
    IN \/ ResolvesTo(doc, k, file)
       \/ \E j \in 1..(k - 1) : ResolvesTo(doc, j, IncludeTarget(doc, k).file)
                                /\ doc.includes[k].scheme = "builtin"

\* The documents visited by the parse chain of log entry k: those read since
\* the top-level parse_file call that entry belongs to.
ChainBefore(k) ==
    {parse_log[j].file : j \in {x \in 1..k : \A m \in (x + 1)..k : parse_log[m].depth # 0}}

ParsesAlone(file) == ParseFile(file, FALSE, {}, 1).err = NoError

\* Include i of the document of log entry k resolves to a document already
\* visited in its chain.
EntryRevisitsAt(k, i) ==
    LET file == parse_log[k].file
    IN \/ Revisits(file, i)
       \/ \E f \in ChainBefore(k) : ResolvesTo(ReadDoc(file), i, f)

\* The document of log entry k is valid up to an include that resolves to a
\* document already visited: it is readable, has no duplicate label, and
\* every earlier include resolves to a bundle that parses.
EntryRevisits(k) ==
    LET doc == ReadDoc(parse_log[k].file)
    IN /\ doc.status = "ok"
       /\ ~HasDuplicates(doc.labels)
       /\ \E i \in 1..Len(doc.includes) :
             /\ EntryRevisitsAt(k, i)
             /\ \A j \in 1..(i - 1) :
                   /\ doc.includes[j].scheme = "builtin"
                   /\ IncludeTarget(doc, j).found
                   /\ ParsesAlone(IncludeTarget(doc, j).file)

\* C8 as stated, for otherwise valid documents: every parse of a document
\* with an include that resolves to the document or to one already visited
\* in the chain fails with the circular-include error, so a load that read
\* such a document has failed with that error.
C8_RevisitAlwaysCircular ==
    \A k \in 1..Len(parse_log) :
        EntryRevisits(k) => pc = "failed" /\ raised.kind = "circular-include"

\* C8 amended: a document parsed with includes enabled that is valid up to
\* an include resolving to itself or to a document already visited fails
\* with GuidelineIncludeError "Circular include detected" naming a revisited
\* document, and the load returns nothing.
C8_TopLevelRevisitCircular ==
    \A k \in 1..Len(parse_log) :
        (parse_log[k].allow_includes /\ EntryRevisits(k)) =>
            /\ pc = "failed"
            /\ raised.type = "GuidelineIncludeError"
            /\ raised.kind = "circular-include"
            /\ \E i \in 1..Len(ReadDoc(parse_log[k].file).includes) :
                  /\ EntryRevisitsAt(k, i)
                  /\ raised.where =
                        PathName(IncludeTarget(ReadDoc(parse_log[k].file), i).file)

\* The built-in default includes itself and the load has failed on it.
C8_Witness ==
    /\ pc = "failed"
    /\ yaml_files = <<>>
    /\ AtDocument
    /\ ResolvesTo(ReadDoc(DefaultFile), 1, DefaultFile)
    /\ raised.kind = "circular-include"

\* Documents i < j of the load both include one built-in bundle.
SharedBundles(i, j) ==
    LET di == project[yaml_files[i]]
        dj == project[yaml_files[j]]
    IN {IncludeTarget(di, a).file : a \in {x \in 1..Len(di.includes) :
            /\ di.includes[x].scheme = "builtin"
            /\ IncludeTarget(di, x).found
            /\ \E b \in 1..Len(dj.includes) :
                  ResolvesTo(dj, b, IncludeTarget(di, x).file)}}

\* C9: when two project documents of one load include the same built-in
\* bundle, the load fails at the second with GuidelineIncludeError "Circular
\* include detected" naming the bundle's file.
C9_SharedIncludeCircular ==
    \A i, j \in 1..Len(yaml_files) :
        (/\ i < j
         /\ project[yaml_files[i]].status = "ok"
         /\ ParseFile(ProjectFile(yaml_files[j]), TRUE, {}, 0).err = NoError
         /\ SharedBundles(i, j) # {}) =>
            /\ idx <= j
            /\ pc \notin {"validate", "done"}
            /\ (pc = "failed" /\ idx = j) =>
                  /\ raised.type = "GuidelineIncludeError"
                  /\ raised.kind = "circular-include"
                  /\ raised.where \in {PathName(f) : f \in SharedBundles(i, j)}

LoadFinished == pc \in {"done", "failed"}

\* C10: include nesting is limited to one level and the load of every
\* include graph, cyclic or not, finishes with a result or an error.
C10_OneLevelAndTerminates ==
    /\ [](\A e \in Range(parse_log) : e.depth <= 1 /\ (e.depth = 1 => ~e.allow_includes))
    /\ <>LoadFinished

\* A finished load that read a bundle whose own includes entry was left
\* unresolved.
C10_Witness ==
    /\ LoadFinished
    /\ \E e \in Range(parse_log) : e.depth = 1 /\ ReadDoc(e.file).includes # <<>>

\* C6: when loading the guideline sets fails, the review run ends with that
\* error and has issued no LLM call and posted no comment, in the
\* merge-request flow and in the local-changes flow.
C6_LoadFailureAbortsBeforeLLM ==
    /\ load_outcome = "raise" =>
          /\ llm_calls = 0
          /\ comments = 0
          /\ rpc \in {"mr_load", "local_get", "local_load", "aborted", "complete"}
          /\ rpc = "complete" => flow = "local" /\ diffs_empty
    /\ rpc = "aborted" => review_error = "GuidelinesLoadError"

\* The local-changes review aborted on a guideline load failure.
C6_Witness ==
    /\ rpc = "aborted"
    /\ flow = "local"
    /\ review_error = "GuidelinesLoadError"

(***************************************************************************)
(* Guideline entries of one document and Guideline construction            *)
(***************************************************************************)
\* The manager and the review are not running.
LoadIdle ==
    /\ builtin = [n \in BundleNames |-> IF n = "default" THEN ShippedDefault ELSE ShippedCq]
    /\ project = EmptyProject
    /\ vcs = [n \in VcsNames |-> Absent]
    /\ pc = "start"
    /\ yaml_files = <<>>
    /\ idx = 1
    /\ guideline_sets = <<>>
    /\ all_seen_ids = {}
    /\ raised = NoError
    /\ parse_log = <<>>

\* Strings are sequences of characters; "a" stands for the lowercase
\* letters, "1" for the digits, "A" for the uppercase letters, " " for
\* whitespace.
SeqsUpTo(S, n) == UNION {[1..k -> S] : k \in 0..n}

\* The character class [a-z0-9-].
IdChar(c) == c \in {"a", "1", "-"}

MinDescriptionLen == 10

\* Guideline.validate_description: at least 10 characters after strip().
ValidateDescription(description) == description.stripped_len >= MinDescriptionLen

\* re.match(r'^[a-z0-9-]+/[a-z0-9-]+$', v): "$" also matches before one
\* trailing newline.
RegexMatchesId(v) ==
    LET core == IF v # <<>> /\ v[Len(v)] = "\n" THEN SubSeq(v, 1, Len(v) - 1) ELSE v
    IN \E k \in 2..(Len(core) - 1) :
          /\ core[k] = "/"
          /\ \A i \in (1..Len(core)) \ {k} : IdChar(core[i])

\* Variant: the separator is not required.
ValidateIdFormatNoSlash(v) == v # <<>> /\ \A i \in 1..Len(v) : IdChar(v[i]) \/ v[i] = "/"

\* Guideline.validate_id_format
ValidateIdFormat(v) == v # <<>> /\ RegexMatchesId(v)

\* Guideline(id=..., description=...): both field validators.
GuidelineAccepts(id, description) ==
    ValidateIdFormat(id) /\ ValidateDescription(description)

\* Parser, label rule "must be lowercase alphanumeric" (with hyphens).
LabelCharsetOk(label) == label # <<>> /\ \A i \in 1..Len(label) : IdChar(label[i])

\* Variant: a leading or trailing hyphen is let through.
LabelHyphenUnchecked(label) == TRUE

\* Parser, label rule "cannot start or end with a hyphen".
LabelHyphenOk(label) == label[1] # "-" /\ label[Len(label)] # "-"

\* f"{stem}/{label}"
MakeId(file_stem, label) == file_stem \o <<"/">> \o label

EntryResult(err, index, guidelines) ==
    [err |-> err, index |-> index, guidelines |-> guidelines]

\* Variant: an entry whose label was seen before is let through.
IsDuplicateLabelNever(label, seen) == FALSE

\* Parser: the label of an entry was used by an earlier entry of the document.
IsDuplicateLabel(label, seen) == label \in seen

\* Parser step 3, entry by entry: label format, Guideline construction,
\* duplicate label; the first failure ends the parse and names the 0-based
\* index of the entry.
RECURSIVE ParseEntriesFrom(_, _, _, _, _)
ParseEntriesFrom(file_stem, items, i, seen, acc) ==
    IF i > Len(items) THEN EntryResult("none", 0, acc)
    ELSE LET label == items[i].label
             id == MakeId(file_stem, label)
         IN IF ~LabelCharsetOk(label) \/ ~LabelHyphenOk(label)
            THEN EntryResult("label-format", i - 1, <<>>)
            ELSE IF ~GuidelineAccepts(id, items[i].description)
            THEN EntryResult("validation-error", i - 1, <<>>)
            ELSE IF IsDuplicateLabel(label, seen)
            THEN EntryResult("duplicate-label", i - 1, <<>>)
            ELSE ParseEntriesFrom(file_stem, items, i + 1, seen \cup {label},
                     Append(acc, [id |-> id, description |-> items[i].description]))

\* Parser steps 2 and 3 on a readable document.
ParseGuidelineEntries(file_stem, items, includes_present) ==
    IF items = <<>> /\ ~includes_present
    THEN EntryResult("no-guidelines", 0, <<>>)
    ELSE ParseEntriesFrom(file_stem, items, 1, {}, <<>>)

\* parse_file up to the end of step 3 on the document at hand.
ParseDocumentEntries ==
    /\ epc = "entries"
    /\ entry_result' = ParseGuidelineEntries(doc_stem, entries, has_includes)
    /\ epc' = "parsed"
    /\ UNCHANGED <<doc_stem, entries, has_includes, ctor_id, ctor_description, ctor_result>>
    /\ UNCHANGED <<loadVars, reviewVars, parseVars, groupVars, filterVars>>
    /\ UNCHANGED lateVars

\* Guideline(id=ctor_id, description=ctor_description)
ConstructGuideline ==
    /\ epc = "ctor"
    /\ ctor_result' = IF GuidelineAccepts(ctor_id, ctor_description)
                      THEN "ok" ELSE "ValidationError"
    /\ epc' = "constructed"
    /\ UNCHANGED <<doc_stem, entries, has_includes, entry_result, ctor_id, ctor_description>>
    /\ UNCHANGED <<loadVars, reviewVars, parseVars, groupVars, filterVars>>
    /\ UNCHANGED lateVars

MaxLabelLen == 3
MaxEntries == 3
MaxIdLen == 4

LabelChars == {"a", "1", "-", "A", "_", " "}
LabelInputs == SeqsUpTo(LabelChars, MaxLabelLen)
ShortLabels == [1..1 -> {"a", "1", "A"}]
Descriptions ==
    { [text |-> "d1", stripped_len |-> 10],
      [text |-> "d2", stripped_len |-> 25],
      [text |-> "d3", stripped_len |-> 9] }
Stems == { <<"a", "-", "1">>, <<"A">> }
EntriesInputs ==
    [1..1 -> [label : LabelInputs, description : Descriptions]]
    \cup UNION {[1..k -> [label : ShortLabels, description : Descriptions]] : k \in 0..MaxEntries}

InitEntries ==
    /\ LoadIdle /\ ReviewIdle /\ ParseIdle /\ GroupIdle /\ FilterIdle
    /\ LateIdle
    /\ epc = "entries"
    /\ doc_stem \in Stems
    /\ entries \in EntriesInputs
    /\ has_includes \in BOOLEAN
    /\ entry_result = EntryResult("none", 0, <<>>)
    /\ ctor_id = <<>>
    /\ ctor_description = [text |-> "", stripped_len |-> 0]
    /\ ctor_result = "none"

NextEntries == ParseDocumentEntries

SpecEntries == InitEntries /\ [][NextEntries]_vars

IdInputChars == {"a", "-", "/", "A", "\n"}

InitGuideline ==
    /\ LoadIdle /\ ReviewIdle /\ ParseIdle /\ GroupIdle /\ FilterIdle
    /\ LateIdle
    /\ epc = "ctor"
    /\ doc_stem = <<>>
    /\ entries = <<>>
    /\ has_includes = FALSE
    /\ entry_result = EntryResult("none", 0, <<>>)
    /\ ctor_id \in SeqsUpTo(IdInputChars, MaxIdLen)
    /\ ctor_description \in Descriptions
    /\ ctor_result = "none"

NextGuideline == ConstructGuideline

SpecGuideline == InitGuideline /\ [][NextGuideline]_vars

\* A string of [a-z0-9-] characters that neither starts nor ends with a hyphen.
CleanSegment(seg) ==
    /\ seg \in SeqsUpTo({"a", "1", "-"}, Len(seg))
    /\ Len(seg) >= 1
    /\ Head(seg) # "-"
    /\ seg[Len(seg)] # "-"

\* C11: for a document with a valid stem and one entry with a valid
\* description, parsing succeeds exactly when the label is made of lowercase
\* letters, digits and hyphens and neither starts nor ends with a hyphen; on
\* success the one guideline has the id "<stem>/<label>", on failure the
\* error is the label-format error and no guideline is produced.
C11_LabelFormatDecidesParse ==
    (/\ epc = "parsed"
     /\ Len(entries) = 1
     /\ CleanSegment(doc_stem)
     /\ entries[1].description.stripped_len >= 10) =>
        /\ entry_result.err = "none" <=> CleanSegment(entries[1].label)
        /\ entry_result.err = "none" =>
              /\ Len(entry_result.guidelines) = 1
              /\ entry_result.guidelines[1].id = doc_stem \o <<"/">> \o entries[1].label
        /\ entry_result.err # "none" =>
              /\ entry_result.err = "label-format"
              /\ entry_result.guidelines = <<>>

\* A label with an inner hyphen was accepted.
C11_Witness ==
    /\ epc = "parsed"
    /\ Len(entries) = 1
    /\ entry_result.err = "none"
    /\ \E i \in 1..Len(entries[1].label) : entries[1].label[i] = "-"

\* Entry j repeats the label of an earlier entry and is the first to do so.
FirstRepeat(j) ==
    /\ j \in 1..Len(entries)
    /\ \E i \in 1..(j - 1) : entries[i].label = entries[j].label
    /\ \A k \in 1..(j - 1) : \A i \in 1..(k - 1) : entries[i].label # entries[k].label

\* The entry would be accepted if it stood alone in the document.
EntryValidAlone(i) ==
    /\ CleanSegment(entries[i].label)
    /\ entries[i].description.stripped_len >= 10

\* C12 as stated: a document in which two entries carry the same label
\* always fails with the duplicate-label error.
C12_SameLabelGivesDuplicateError ==
    (epc = "parsed" /\ \E j \in 1..Len(entries) : FirstRepeat(j)) =>
        entry_result.err = "duplicate-label"

\* C12 amended: a document in which two entries carry the same label always
\* fails and yields no guideline, with or without includes; the error is the
\* duplicate-label error at the repeating entry whenever the stem and every
\* entry up to that one are valid on their own, whatever their descriptions
\* and positions.
C12_SameLabelFails ==
    \A j \in 1..Len(entries) :
        (epc = "parsed" /\ FirstRepeat(j)) =>
            /\ entry_result.err # "none"
            /\ entry_result.guidelines = <<>>
            /\ (CleanSegment(doc_stem) /\ \A i \in 1..j : EntryValidAlone(i)) =>
                  /\ entry_result.err = "duplicate-label"
                  /\ entry_result.index = j - 1

\* The first and third entries of a document with includes share a label and
\* differ in description; the parse failed on the third.
C12_Witness ==
    /\ epc = "parsed"
    /\ has_includes
    /\ Len(entries) = 3
    /\ entries[1].label = entries[3].label
    /\ entries[1].label # entries[2].label
    /\ entries[1].description # entries[3].description
    /\ entry_result.err = "duplicate-label"
    /\ entry_result.index = 2

(***************************************************************************)
(* A single parse_file call                                                *)
(***************************************************************************)
\* parser.parse_file(file) as the manager calls it: includes enabled, a
\* fresh processed_files.
ParseCall ==
    /\ ppc = "call"
    /\ parse_result' = ParseFile(parse_call.file, parse_call.allow_includes, {}, 0)
    /\ ppc' = "returned"
    /\ UNCHANGED parse_call
    /\ UNCHANGED <<loadVars, reviewVars, entryVars, groupVars, filterVars>>
    /\ UNCHANGED lateVars

\* Bundles whose own includes list holds an entry that cannot be resolved.
BundleDocsWithBadInclude ==
    { OkDoc(<<"l1">>, <<Ref("builtin", "nope")>>),
      OkDoc(<<"l1">>, <<Ref("project", "x")>>) }

ParseBuiltinDirs ==
    { [n \in BundleNames |->
         CASE n = "default" -> [exts |-> de, doc |-> dd]
           [] n = "sec" -> [exts |-> se, doc |-> sd]
           [] OTHER -> ShippedCq] :
      de \in {{"yaml"}, {"yml"}}, dd \in DefaultDocs,
      se \in {{}, {"yaml"}, {"yml"}}, sd \in SecDocs \cup BundleDocsWithBadInclude }

InitParse ==
    /\ builtin \in ParseBuiltinDirs
    /\ project \in {d \in ProjectDirs :
                      d[<<"a", "yml">>] = Absent /\ d[<<"sec", "yaml">>] = Absent}
    /\ vcs = [n \in VcsNames |-> Absent]
    /\ pc = "start"
    /\ yaml_files = <<>>
    /\ idx = 1
    /\ guideline_sets = <<>>
    /\ all_seen_ids = {}
    /\ raised = NoError
    /\ parse_log = <<>>
    /\ ReviewIdle /\ EntryIdle /\ GroupIdle /\ FilterIdle
    /\ LateIdle
    /\ ppc = "call"
    /\ parse_call \in [file : {File("project", "a", "yaml"), DefaultFile},
                       allow_includes : {TRUE}]
    /\ parse_result = Result(NoError, <<>>, {}, <<>>)

NextParse == ParseCall

SpecParse == InitParse /\ [][NextParse]_vars

\* Include k of the document is the first thing about it that can fail: the
\* document is readable with unique labels and its earlier includes resolve
\* to distinct bundles that parse.
ReachesInclude(file, k) ==
    LET doc == ReadDoc(file)
    IN /\ doc.status = "ok"
       /\ ~HasDuplicates(doc.labels)
       /\ k \in 1..Len(doc.includes)
       /\ \A j \in 1..(k - 1) :
             /\ doc.includes[j].scheme = "builtin"
             /\ IncludeTarget(doc, j).found
             /\ ~Revisits(file, j)
             /\ ParsesAlone(IncludeTarget(doc, j).file)

\* The built-in directory holds <name>.yaml or <name>.yml.
BundleHasFile(name) == name \in DOMAIN builtin /\ builtin[name].exts # {}

\* Include k of the document names a built-in bundle that has no file.
MissingBuiltinAt(file, k) ==
    /\ ReachesInclude(file, k)
    /\ ReadDoc(file).includes[k].scheme = "builtin"
    /\ ~BundleHasFile(ReadDoc(file).includes[k].name)

\* Include k of the document is not of the form "builtin:...".
UnsupportedRefAt(file, k) ==
    /\ ReachesInclude(file, k)
    /\ ReadDoc(file).includes[k].scheme # "builtin"

\* The parse_file call failed with the given error and returned nothing.
ParseFailedWith(type, kind) ==
    /\ parse_result.err.type = type
    /\ parse_result.err.kind = kind
    /\ parse_result.guidelines = <<>>

\* C13 as stated, for otherwise valid documents: an includes entry naming a
\* built-in bundle without a file always fails the parse with
\* BuiltinGuidelineNotFoundError, one that is not "builtin:..." always fails
\* it with the unsupported-reference GuidelineIncludeError; nothing is
\* produced.
C13_BadIncludeAlwaysFails ==
    ppc = "returned" =>
        \A e \in Range(parse_result.log) : \A k \in 1..Len(ReadDoc(e.file).includes) :
            /\ MissingBuiltinAt(e.file, k) =>
                  ParseFailedWith("BuiltinGuidelineNotFoundError", "builtin-not-found")
            /\ UnsupportedRefAt(e.file, k) =>
                  ParseFailedWith("GuidelineIncludeError", "unsupported-include")

\* C13 amended: in a document parsed with includes enabled, an includes
\* entry naming a built-in bundle without a file fails the parse with
\* BuiltinGuidelineNotFoundError and one that is not "builtin:..." fails it
\* with the unsupported-reference GuidelineIncludeError, once the entries
\* before it have been resolved; nothing is produced.
C13_BadIncludeFailsWhenResolved ==
    ppc = "returned" =>
        \A e \in Range(parse_result.log) : \A k \in 1..Len(ReadDoc(e.file).includes) :
            e.allow_includes =>
                /\ MissingBuiltinAt(e.file, k) =>
                      ParseFailedWith("BuiltinGuidelineNotFoundError", "builtin-not-found")
                /\ UnsupportedRefAt(e.file, k) =>
                      ParseFailedWith("GuidelineIncludeError", "unsupported-include")

\* A project document with local guidelines includes a bundle that has no
\* file, and the parse failed on it.
C13_Witness ==
    /\ ppc = "returned"
    /\ parse_call.allow_includes
    /\ parse_call.file.dir = "project"
    /\ ReadDoc(parse_call.file).status = "ok"
    /\ ReadDoc(parse_call.file).labels # <<>>
    /\ MissingBuiltinAt(parse_call.file, 1)
    /\ parse_result.err.type = "BuiltinGuidelineNotFoundError"

(***************************************************************************)
(* Properties of Guideline construction                                    *)
(***************************************************************************)
\* The id is "prefix/label" with both segments clean.
CleanId(id) ==
    \E k \in 1..Len(id) :
        /\ id[k] = "/"
        /\ CleanSegment(SubSeq(id, 1, k - 1))
        /\ CleanSegment(SubSeq(id, k + 1, Len(id)))

\* The id, without one trailing newline if it has one, is "prefix/label"
\* with two non-empty segments of [a-z0-9-] characters.
PatternId(id) ==
    LET core == IF id # <<>> /\ id[Len(id)] = "\n" THEN SubSeq(id, 1, Len(id) - 1) ELSE id
    IN \E k \in 1..Len(core) :
          /\ core[k] = "/"
          /\ k > 1 /\ k < Len(core)
          /\ SubSeq(core, 1, k - 1) \in SeqsUpTo({"a", "1", "-"}, k - 1)
          /\ SubSeq(core, k + 1, Len(core)) \in SeqsUpTo({"a", "1", "-"}, Len(core) - k)

\* C14 as stated: construction accepts a Guideline exactly when its id is
\* prefix/label with both segments made of [a-z0-9-] characters and neither
\* segment starting or ending with a hyphen (the description being valid).
C14_AcceptedIdsAreClean ==
    (epc = "constructed" /\ ctor_description.stripped_len >= 10) =>
        (ctor_result = "ok" <=> CleanId(ctor_id))

\* C14 amended: construction accepts a Guideline exactly when its id matches
\* ^[a-z0-9-]+/[a-z0-9-]+$ as re.match reads it -- two non-empty segments of
\* [a-z0-9-] characters around one "/", either of which may start or end
\* with a hyphen, optionally followed by one newline -- and its description
\* is valid; any other id fails with a validation error.
C14_AcceptedIdsMatchPattern ==
    epc = "constructed" =>
        /\ ctor_result \in {"ok", "ValidationError"}
        /\ ctor_result = "ok" <=>
              PatternId(ctor_id) /\ ctor_description.stripped_len >= 10

\* A Guideline whose id segments start or end with a hyphen was accepted.
C14_Witness ==
    /\ epc = "constructed"
    /\ ctor_result = "ok"
    /\ ctor_id = <<"-", "a", "/", "-">>

\* ---------------------------------------------------------------------------
\* create_file_groups: batching of the changed files under a character budget
\* ---------------------------------------------------------------------------

MAX_CHARS_PER_GROUP == 42000

\* int(chars / TOKEN_TO_CHAR_ESTIMATE) with TOKEN_TO_CHAR_ESTIMATE = 3.5.
TokensOf(chars) == (chars * 2) \div 7

\* A FileDiff; diff_content is kept by its length only.
FileDiff(file_path, diff_content_len, tokens) ==
    [file_path |-> file_path, diff_content_len |-> diff_content_len, tokens |-> tokens]

\* content_len of the loop body: len(file_path) + len(diff_content).
ContentLen(diff) == Len(diff.file_path) + diff.diff_content_len

FileGroup(files, gid, total_tokens) ==
    [files |-> files, group_id |-> gid, total_tokens |-> total_tokens]

\* The overflow test looks at the batch so far, without the file being added.
OverflowsBeforeAdding(batch, chars, content_len) ==
    /\ batch # <<>>
    /\ chars > MAX_CHARS_PER_GROUP

\* "if current_batch and (current_chars + content_len > MAX_CHARS_PER_GROUP)"
Overflows(batch, chars, content_len) ==
    /\ batch # <<>>
    /\ chars + content_len > MAX_CHARS_PER_GROUP

\* The batch is restarted without the file that overflowed it.
BatchAfterDropping(batch, diff, overflow) ==
    IF overflow THEN <<>> ELSE Append(batch, diff)

\* The batch after the loop body: reset on overflow, then the file appended.
BatchAfter(batch, diff, overflow) ==
    Append(IF overflow THEN <<>> ELSE batch, diff)

\* One iteration of "for diff in diffs".
GroupStep ==
    /\ gpc = "loop"
    /\ diff_idx <= Len(diffs)
    /\ LET content_len == ContentLen(diffs[diff_idx])
           diff == [diffs[diff_idx] EXCEPT !.tokens = TokensOf(content_len)]
           overflow == Overflows(current_batch, current_chars, content_len)
       IN  /\ diffs' = [diffs EXCEPT ![diff_idx] = diff]
           /\ groups' = IF overflow
                        THEN Append(groups, FileGroup(current_batch, group_id,
                                                      TokensOf(current_chars)))
                        ELSE groups
           /\ group_id' = IF overflow THEN group_id + 1 ELSE group_id
           /\ current_batch' = BatchAfter(current_batch, diff, overflow)
           /\ current_chars' = (IF overflow THEN 0 ELSE current_chars) + content_len
    /\ diff_idx' = diff_idx + 1
    /\ UNCHANGED gpc
    /\ UNCHANGED <<loadVars, reviewVars, entryVars, parseVars, filterVars>>
    /\ UNCHANGED lateVars

\* After the loop: the last batch, if any, becomes a group; the list is returned.
GroupReturn ==
    /\ gpc = "loop"
    /\ diff_idx > Len(diffs)
    /\ groups' = IF current_batch # <<>>
                 THEN Append(groups, FileGroup(current_batch, group_id,
                                               TokensOf(current_chars)))
                 ELSE groups
    /\ gpc' = "returned"
    /\ UNCHANGED <<diffs, diff_idx, current_batch, current_chars, group_id>>
    /\ UNCHANGED <<loadVars, reviewVars, entryVars, parseVars, filterVars>>
    /\ UNCHANGED lateVars

MaxDiffs == 3

\* Paths of one and two characters; contents that put a file at 1 or 2
\* characters, at half the budget, just under it, exactly on it and just over.
DiffPaths == {<<"a">>, <<"a", "b">>}
DiffContentLens ==
    {0, MAX_CHARS_PER_GROUP \div 2 - 1, MAX_CHARS_PER_GROUP - 2, MAX_CHARS_PER_GROUP - 1}
DiffInputs == {FileDiff(p, n, 0) : p \in DiffPaths, n \in DiffContentLens}

InitGrouping ==
    /\ LoadIdle /\ ReviewIdle /\ EntryIdle /\ ParseIdle /\ FilterIdle
    /\ LateIdle
    /\ gpc = "loop"
    /\ diffs \in SeqsUpTo(DiffInputs, MaxDiffs)
    /\ diff_idx = 1
    /\ groups = <<>>
    /\ current_batch = <<>>
    /\ current_chars = 0
    /\ group_id = 1

NextGrouping == GroupStep \/ GroupReturn

SpecGrouping == InitGrouping /\ [][NextGrouping]_vars

RECURSIVE SumContentLen(_)
SumContentLen(files) ==
    IF files = <<>> THEN 0
    ELSE ContentLen(Head(files)) + SumContentLen(Tail(files))

RECURSIVE ConcatFiles(_)
ConcatFiles(gs) ==
    IF gs = <<>> THEN <<>>
    ELSE Head(gs).files \o ConcatFiles(Tail(gs))

Oversized(diff) == ContentLen(diff) > MAX_CHARS_PER_GROUP

\* C15: every returned group either totals at most the 42,000-character
\* budget or consists of exactly one file that is itself over the budget, and
\* a file that is over the budget never shares its group with another file.
C15_GroupsWithinBudget ==
    gpc = "returned" =>
        \A g \in 1..Len(groups) :
            /\ \/ SumContentLen(groups[g].files) <= MAX_CHARS_PER_GROUP
               \/ /\ Len(groups[g].files) = 1
                  /\ Oversized(groups[g].files[1])
            /\ \A f \in 1..Len(groups[g].files) :
                  Oversized(groups[g].files[f]) => Len(groups[g].files) = 1

\* An oversized file sits alone between two groups, one of which holds two
\* files that fill the budget exactly.
C15_Witness ==
    /\ gpc = "returned"
    /\ \E g \in 1..Len(groups) :
          /\ Len(groups[g].files) = 1
          /\ Oversized(groups[g].files[1])
    /\ \E g \in 1..Len(groups) :
          /\ Len(groups[g].files) = 2
          /\ SumContentLen(groups[g].files) = MAX_CHARS_PER_GROUP

\* C16: the returned groups are an order-preserving partition of the input:
\* their files, concatenated in group order, are the input sequence; no
\* group is empty; an empty input gives no groups.
C16_OrderPreservingPartition ==
    gpc = "returned" =>
        /\ ConcatFiles(groups) = diffs
        /\ \A g \in 1..Len(groups) : groups[g].files # <<>>
        /\ diffs = <<>> => groups = <<>>

\* Three files came back as two groups, one of them holding two files.
C16_Witness ==
    /\ gpc = "returned"
    /\ Len(diffs) = 3
    /\ Len(groups) = 2
    /\ \E g \in 1..2 : Len(groups[g].files) = 2

\* ---------------------------------------------------------------------------
\* Duplicate filtering: MRComment.overlaps_with_violation and
\* _filter_existing_violations
\* ---------------------------------------------------------------------------

\* Optional[T]: None, or a value.
None == <<>>
Some(x) == <<x>>

GuidelineViolation(file_path, line_number, guideline_id) ==
    [file_path |-> file_path, line_number |-> line_number, guideline_id |-> guideline_id]

MRComment(file_path, line_number, guideline_id, is_inline) ==
    [file_path |-> file_path, line_number |-> line_number,
     guideline_id |-> guideline_id, is_inline |-> is_inline]

line_tolerance == 10

Abs(n) == IF n < 0 THEN 0 - n ELSE n

\* Only inline comments are taken to carry a location.
CarriesLocationInlineOnly(comment) ==
    /\ comment.is_inline
    /\ comment.file_path # None
    /\ comment.file_path # Some("")
    /\ comment.line_number # None

\* not ("if not self.file_path or self.line_number is None")
CarriesLocation(comment) ==
    /\ comment.file_path # None
    /\ comment.file_path # Some("")
    /\ comment.line_number # None

\* The tolerance is exclusive.
WithinToleranceStrict(comment_line, violation_line) ==
    Abs(comment_line - violation_line) < line_tolerance

\* abs(self.line_number - violation.line_number) <= line_tolerance
WithinTolerance(comment_line, violation_line) ==
    Abs(comment_line - violation_line) <= line_tolerance

\* MRComment.overlaps_with_violation
OverlapsWithViolation(comment, violation) ==
    IF ~CarriesLocation(comment) THEN FALSE
    ELSE IF comment.file_path # Some(violation.file_path) THEN FALSE
    ELSE IF /\ comment.guideline_id # None
            /\ comment.guideline_id # Some("")
            /\ comment.guideline_id # Some(violation.guideline_id) THEN FALSE
    ELSE WithinTolerance(comment.line_number[1], violation.line_number)

\* any(comment.overlaps_with_violation(violation) for comment in existing_comments)
IsDuplicate(violation, existing) ==
    \E j \in 1..Len(existing) : OverlapsWithViolation(existing[j], violation)

\* The new violation is put in front of the kept ones.
PrependKept(filtered, violation) == <<violation>> \o filtered

\* filtered_violations.append(violation)
AppendKept(filtered, violation) == Append(filtered, violation)

\* The loop over result.violations: a new list of the violations no comment overlaps.
RECURSIVE KeepNewViolations(_, _, _)
KeepNewViolations(violations, existing, filtered) ==
    IF violations = <<>> THEN filtered
    ELSE KeepNewViolations(Tail(violations), existing,
                           IF IsDuplicate(Head(violations), existing)
                           THEN filtered
                           ELSE AppendKept(filtered, Head(violations)))

\* _filter_existing_violations(result, existing_comments): the arguments are
\* only read; without comments the result itself is returned.
FilterExistingViolations ==
    /\ fpc = "call"
    /\ filter_original_count' = Len(result_violations)
    /\ filtered_violations' =
          IF existing_comments = <<>> THEN result_violations
          ELSE KeepNewViolations(result_violations, existing_comments, <<>>)
    /\ fpc' = "returned"
    /\ UNCHANGED <<result_violations, existing_comments>>
    /\ UNCHANGED <<loadVars, reviewVars, entryVars, parseVars, groupVars>>
    /\ UNCHANGED lateVars

MaxFilterViolations == 2
MaxComments == 2

\* Violations in two files, on lines 10 and 11 away from the comments' lines.
ViolationInputs ==
    { GuidelineViolation("a.py", 11, "g/a"),
      GuidelineViolation("a.py", 12, "g/a"),
      GuidelineViolation("b.py", 11, "g/a") }

\* Inline and general comments on a.py above and below the violations, with
\* no rule id, the violations' rule id or another one; and comments without
\* a file path or without a line number.
CommentInputs ==
    { MRComment(Some("a.py"), Some(n), g, inl) :
          n \in {1, 22}, g \in {None, Some("g/a"), Some("g/b")}, inl \in BOOLEAN }
    \cup
    { MRComment(fl[1], fl[2], Some("g/a"), inl) :
          fl \in {<<None, Some(1)>>, <<Some("a.py"), None>>, <<None, None>>},
          inl \in BOOLEAN }

InitFilter ==
    /\ LoadIdle /\ ReviewIdle /\ EntryIdle /\ ParseIdle /\ GroupIdle
    /\ LateIdle
    /\ fpc = "call"
    /\ result_violations \in SeqsUpTo(ViolationInputs, MaxFilterViolations)
    /\ existing_comments \in SeqsUpTo(CommentInputs, MaxComments)
    /\ filtered_violations = <<>>
    /\ filter_original_count = 0

NextFilter == FilterExistingViolations

SpecFilter == InitFilter /\ [][NextFilter]_vars

\* The comment has a file path and a line number, the paths are equal, the
\* comment's rule id is absent or the violation's, and the lines are at most
\* 10 apart.
MarksDuplicate(comment, violation) ==
    /\ comment.file_path = Some(violation.file_path)
    /\ comment.line_number # None
    /\ comment.guideline_id \in {None, Some(violation.guideline_id)}
    /\ \E d \in 0..10 :
          \/ comment.line_number = Some(violation.line_number + d)
          \/ comment.line_number = Some(violation.line_number - d)

Removed(violation) ==
    \A k \in 1..Len(filtered_violations) : filtered_violations[k] # violation

RECURSIVE IsSubsequence(_, _)
IsSubsequence(s, t) ==
    IF s = <<>> THEN TRUE
    ELSE IF t = <<>> THEN FALSE
    ELSE IF Head(s) = Head(t) THEN IsSubsequence(Tail(s), Tail(t))
    ELSE IsSubsequence(s, Tail(t))

NotMarked(violation) ==
    \A j \in 1..Len(existing_comments) : ~MarksDuplicate(existing_comments[j], violation)

\* C17: the filter returns exactly the violations that no existing comment
\* marks as a duplicate, where a comment with a file path and a line number
\* marks a violation exactly when the paths are equal, its rule id is absent
\* or equal to the violation's, and the line numbers differ by at most 10.
C17_RemovedIffMarked ==
    fpc = "returned" =>
        filtered_violations = SelectSeq(result_violations, NotMarked)

\* One comment removed the violation 10 lines away and left the one 11 lines away.
C17_Witness ==
    /\ fpc = "returned"
    /\ existing_comments = <<MRComment(Some("a.py"), Some(1), Some("g/a"), TRUE)>>
    /\ result_violations = <<GuidelineViolation("a.py", 11, "g/a"),
                             GuidelineViolation("a.py", 12, "g/a")>>
    /\ filtered_violations = <<GuidelineViolation("a.py", 12, "g/a")>>

\* C18 as stated: a violation is filtered out only when an inline comment
\* marks it as a duplicate.
C18_OnlyInlineCommentsFilter ==
    fpc = "returned" =>
        \A i \in 1..Len(result_violations) :
            Removed(result_violations[i]) =>
                \E j \in 1..Len(existing_comments) :
                    /\ existing_comments[j].is_inline
                    /\ MarksDuplicate(existing_comments[j], result_violations[i])

\* C18: only a comment that carries a file path and a line number can make a
\* violation a duplicate, and the is_inline flag plays no part: a general
\* comment with a matching file path, a matching or absent rule id and a
\* line number within tolerance does cause the violation to be filtered out.
C18_LocatedCommentsFilter ==
    fpc = "returned" =>
        \A i \in 1..Len(result_violations) :
            /\ Removed(result_violations[i]) =>
                  \E j \in 1..Len(existing_comments) :
                      /\ existing_comments[j].file_path # None
                      /\ existing_comments[j].line_number # None
            /\ (\E j \in 1..Len(existing_comments) :
                      /\ ~existing_comments[j].is_inline
                      /\ MarksDuplicate(existing_comments[j], result_violations[i]))
                  => Removed(result_violations[i])

\* A general comment alone removed a violation.
C18_Witness ==
    /\ fpc = "returned"
    /\ Len(existing_comments) = 1
    /\ ~existing_comments[1].is_inline
    /\ Len(result_violations) = 1
    /\ filtered_violations = <<>>

\* C19: the call leaves the result's violation list and the comment list as
\* they were, the returned violations are a subsequence of the input
\* violations in their order, the original count is the number of input
\* violations, and the filtered count is at most the original count.
C19_FilterNonMutatingOrderPreserving ==
    [][fpc' = "returned" =>
          /\ result_violations' = result_violations
          /\ existing_comments' = existing_comments
          /\ IsSubsequence(filtered_violations', result_violations)
          /\ filter_original_count' = Len(result_violations)
          /\ Len(filtered_violations') <= filter_original_count']_vars

\* Two different violations were both kept although comments exist.
C19_Witness ==
    /\ fpc = "returned"
    /\ existing_comments # <<>>
    /\ Len(result_violations) = 2
    /\ result_violations[1] # result_violations[2]
    /\ filtered_violations = result_violations

\* ---------------------------------------------------------------------------
\* Review runs on a change without files
\* ---------------------------------------------------------------------------

\* C20: when the diff fetch returns no changed files the review run is a
\* successful no-op: no LLM call is issued, no comment is posted and no error
\* is raised.
C20_EmptyDiffIsNoOp ==
    (diffs_empty /\ load_outcome = "ok") =>
        /\ llm_calls = 0
        /\ comments = 0
        /\ review_error = "none"

\* ---------------------------------------------------------------------------
\* Comment bodies: GuidelineViolation.to_comment / to_general_comment and
\* MRComment.parse_guideline_id / parse_file_and_line
\*
\* A text is a sequence of pieces; each piece is a run of characters that
\* occurs in no other way: two stars, "Violation of ", "Violation at ", a
\* backtick, a colon, a space, a blank line, a slash, a hyphen, the letter a
\* and the digits.
\* ---------------------------------------------------------------------------

\* The piece standing for the backtick character.
Backtick == "backtick"

DigitChars == <<"0", "1", "2", "3", "4", "5", "6", "7", "8", "9">>

IsDigit(c) == \E d \in 1..10 : DigitChars[d] = c

DigitValue(c) == (CHOOSE d \in 1..10 : DigitChars[d] = c) - 1

\* str(n) of a non-negative int.
RECURSIVE IntToStr(_)
IntToStr(n) ==
    IF n < 10 THEN <<DigitChars[n + 1]>>
    ELSE IntToStr(n \div 10) \o <<DigitChars[(n % 10) + 1]>>

\* int(s) of a string of digits.
RECURSIVE StrToInt(_)
StrToInt(s) ==
    IF s = <<>> THEN 0
    ELSE 10 * StrToInt(SubSeq(s, 1, Len(s) - 1)) + DigitValue(s[Len(s)])

\* [a-z0-9-]
IsIdPiece(c) == c \in {"a", "-"} \/ IsDigit(c)

\* to_comment: two stars, Violation of, the id, two stars, colon, space, reasoning.
ToComment(violation) ==
    <<"**", "Violation of ">> \o violation.guideline_id \o <<"**", ":", " ">>
        \o violation.reasoning

\* to_general_comment: two stars, Violation at, backtick, path, colon, line,
\* backtick, two stars, blank line, two stars, the id, two stars, colon, space,
\* reasoning.
ToGeneralComment(violation) ==
    <<"**", "Violation at ", Backtick>> \o violation.file_path \o <<":">>
        \o IntToStr(violation.line_number) \o <<Backtick, "**", "\n\n", "**">>
        \o violation.guideline_id \o <<"**", ":", " ">> \o violation.reasoning

\* The id group of both patterns, an id-character run, a slash and an
\* id-character run followed by two stars and a colon, matched from position
\* from: the end of the group, or 0 without a match.
IdGroupEnd(body, from) ==
    LET ends == { k \in from..Len(body) :
                    /\ k + 2 <= Len(body)
                    /\ body[k + 1] = "**"
                    /\ body[k + 2] = ":"
                    /\ \E j \in from..k :
                          /\ body[j] = "/"
                          /\ j > from
                          /\ j < k
                          /\ (\A q \in from..(j - 1) : IsIdPiece(body[q]))
                          /\ (\A q \in (j + 1)..k : IsIdPiece(body[q])) }
    IN  IF ends = {} THEN 0 ELSE CHOOSE k \in ends : TRUE

\* Pattern 1 of parse_guideline_id (two stars, Violation of, the id group,
\* two stars, colon): the positions of body where it matches.
ViolationOfMatches(body) ==
    { i \in 1..Len(body) :
        /\ i + 1 <= Len(body)
        /\ body[i] = "**"
        /\ body[i + 1] = "Violation of "
        /\ IdGroupEnd(body, i + 2) # 0 }

\* Pattern 2 of parse_guideline_id (two stars, the id group, two stars,
\* colon): the positions of body where it matches.
BareIdMatches(body) ==
    { i \in 1..Len(body) :
        /\ body[i] = "**"
        /\ IdGroupEnd(body, i + 1) # 0 }

Leftmost(S) == CHOOSE i \in S : \A j \in S : i <= j

\* MRComment.parse_guideline_id
ParseGuidelineId(body) ==
    IF ViolationOfMatches(body) # {}
    THEN LET i == Leftmost(ViolationOfMatches(body))
         IN  Some(SubSeq(body, i + 2, IdGroupEnd(body, i + 2)))
    ELSE IF BareIdMatches(body) # {}
    THEN LET i == Leftmost(BareIdMatches(body))
         IN  Some(SubSeq(body, i + 1, IdGroupEnd(body, i + 1)))
    ELSE None

\* The two groups of the parse_file_and_line pattern, a non-empty run
\* without backtick, a colon, a non-empty run of digits, then a backtick and
\* two stars, matched from position from: <<end of the path, end of the
\* digits>>, or <<0, 0>>.  The path is greedy, so the colon taken is the last
\* one possible.
FileAndLineGroups(body, from) ==
    LET splits == { jk \in (from..Len(body)) \X (from..Len(body)) :
                      /\ jk[1] + 1 < jk[2] + 1
                      /\ jk[2] + 2 <= Len(body)
                      /\ \A p \in from..jk[1] : body[p] # Backtick
                      /\ body[jk[1] + 1] = ":"
                      /\ (\A q \in (jk[1] + 2)..jk[2] : IsDigit(body[q]))
                      /\ jk[1] + 2 <= jk[2]
                      /\ body[jk[2] + 1] = Backtick
                      /\ body[jk[2] + 2] = "**" }
    IN  IF splits = {} THEN <<0, 0>>
        ELSE CHOOSE jk \in splits : \A other \in splits : other[1] <= jk[1]

\* The positions of body where the parse_file_and_line pattern matches.
ViolationAtMatches(body) ==
    { i \in 1..Len(body) :
        /\ i + 2 <= Len(body)
        /\ body[i] = "**"
        /\ body[i + 1] = "Violation at "
        /\ body[i + 2] = Backtick
        /\ FileAndLineGroups(body, i + 3) # <<0, 0>> }

\* MRComment.parse_file_and_line: (file_path, line_number) or (None, None)
ParseFileAndLine(body) ==
    IF ViolationAtMatches(body) # {}
    THEN LET i == Leftmost(ViolationAtMatches(body))
             jk == FileAndLineGroups(body, i + 3)
         IN  <<Some(SubSeq(body, i + 3, jk[1])),
               Some(StrToInt(SubSeq(body, jk[1] + 2, jk[2])))>>
    ELSE <<None, None>>

\* ---------------------------------------------------------------------------
\* Publishing one ReviewResult: ReviewEngine._process_results and
\* FeedbackPublisher.post_feedback
\* ---------------------------------------------------------------------------

\* A GuidelineViolation with its reasoning and confidence; file_path,
\* guideline_id and reasoning are texts.
ReportedViolation(file_path, line_number, guideline_id, reasoning, confidence) ==
    [file_path |-> file_path, line_number |-> line_number,
     guideline_id |-> guideline_id, reasoning |-> reasoning,
     confidence |-> confidence]

\* One call on the VCS client: index is the position of the violation in the
\* result, arg the violation (post_comment) or the body (post_general_comment).
Attempt(call, index, arg, outcome) ==
    [call |-> call, index |-> index, arg |-> arg, outcome |-> outcome]

\* What post_comment can do (gitlab.py:50-80): succeed, raise one of the two
\* domain errors, or let the error of the merge-request lookup through.
InlineOutcomes == {"ok", "LineNotInDiffError", "VCSCommentError", "GitlabGetError"}

\* What post_general_comment can do (gitlab.py:89-97).
GeneralOutcomes == {"ok", "VCSCommentError", "GitlabGetError"}

\* post_feedback: if violation.confidence == "low" or violation.confidence == "medium": continue
SkipsViolation(mode, violation) ==
    /\ mode = "feedback"
    /\ violation.confidence \in {"low", "medium"}

\* Only LineNotInDiffError is handled.
CaughtLineNotInDiffOnly(outcome) == outcome = "LineNotInDiffError"

\* The except clauses around post_comment.
CaughtInline(outcome) == outcome \in {"LineNotInDiffError", "VCSCommentError"}

\* The except clause around post_general_comment.
CaughtGeneral(outcome) == outcome = "VCSCommentError"

\* The fallback is also taken after VCSCommentError.
FallsBackAlways(outcome) == outcome \in {"LineNotInDiffError", "VCSCommentError"}

\* except LineNotInDiffError: post_general_comment(violation.to_general_comment())
FallsBack(outcome) == outcome = "LineNotInDiffError"

\* One iteration of "for violation in result.violations".
PostViolation ==
    /\ pub_pc = "loop"
    /\ pub_idx <= Len(pub_violations)
    /\ LET violation == pub_violations[pub_idx]
       IN  IF SkipsViolation(pub_mode, violation)
           THEN /\ pub_idx' = pub_idx + 1
                /\ UNCHANGED <<pub_pc, pub_attempts, pub_posted_count, eng_error>>
           ELSE \E inline \in InlineOutcomes :
                  LET first == Attempt("post_comment", pub_idx, violation, inline)
                  IN  IF inline = "ok"
                      THEN /\ pub_attempts' = Append(pub_attempts, first)
                           /\ pub_posted_count' =
                                 pub_posted_count + (IF pub_mode = "feedback" THEN 1 ELSE 0)
                           /\ pub_idx' = pub_idx + 1
                           /\ UNCHANGED <<pub_pc, eng_error>>
                      ELSE IF ~CaughtInline(inline)
                      THEN /\ pub_attempts' = Append(pub_attempts, first)
                           /\ pub_pc' = "raised"
                           /\ eng_error' = inline
                           /\ UNCHANGED <<pub_idx, pub_posted_count>>
                      ELSE IF FallsBack(inline)
                      THEN \E general \in GeneralOutcomes :
                             /\ pub_attempts' =
                                   pub_attempts \o
                                   <<first,
                                     Attempt("post_general_comment", pub_idx,
                                             ToGeneralComment(violation), general)>>
                             /\ IF general = "ok"
                                THEN /\ pub_posted_count' =
                                           pub_posted_count
                                           + (IF pub_mode = "feedback" THEN 1 ELSE 0)
                                     /\ pub_idx' = pub_idx + 1
                                     /\ UNCHANGED <<pub_pc, eng_error>>
                                ELSE IF CaughtGeneral(general)
                                THEN /\ pub_idx' = pub_idx + 1
                                     /\ UNCHANGED <<pub_pc, pub_posted_count, eng_error>>
                                ELSE /\ pub_pc' = "raised"
                                     /\ eng_error' = general
                                     /\ UNCHANGED <<pub_idx, pub_posted_count>>
                      ELSE /\ pub_attempts' = Append(pub_attempts, first)
                           /\ pub_idx' = pub_idx + 1
                           /\ UNCHANGED <<pub_pc, pub_posted_count, eng_error>>
    /\ UNCHANGED <<pub_mode, pub_violations, pub_return>>
    /\ UNCHANGED <<eng_pc, eng_diffs, eng_fetch, eng_server_comments,
                   eng_existing_comments, eng_groups, eng_idx, eng_result,
                   eng_llm_calls, eng_original_total, eng_filtered_total,
                   eng_success>>
    /\ UNCHANGED earlyVars

\* After the loop: _process_results returns len(result.violations),
\* post_feedback returns posted_count.
PublishReturn ==
    /\ pub_pc = "loop"
    /\ pub_idx > Len(pub_violations)
    /\ pub_return' = IF pub_mode = "feedback" THEN pub_posted_count
                     ELSE Len(pub_violations)
    /\ pub_pc' = "returned"
    /\ UNCHANGED <<pub_mode, pub_violations, pub_idx, pub_attempts, pub_posted_count>>
    /\ UNCHANGED engineVars
    /\ UNCHANGED earlyVars

MaxPublish == 2

Confidences == {"high", "medium", "low", "critical"}

\* Violations on two lines of one file, in every confidence.
PublishInputs ==
    { ReportedViolation(<<"a">>, n, <<"a", "/", "a">>, <<"a">>, c) :
          n \in {5, 12}, c \in Confidences }

InitPublish ==
    /\ LoadIdle /\ ReviewIdle /\ UnitsIdle /\ EngineIdle /\ SideIdle
    /\ pub_pc = "loop"
    /\ pub_mode \in {"engine", "feedback"}
    /\ pub_violations \in SeqsUpTo(PublishInputs, MaxPublish)
    /\ pub_idx = 1
    /\ pub_attempts = <<>>
    /\ pub_posted_count = 0
    /\ pub_return = 0

NextPublish == PostViolation \/ PublishReturn

SpecPublish == InitPublish /\ [][NextPublish]_vars

\* ---------------------------------------------------------------------------
\* ReviewEngine.run (code_reviewer/core/engine.py)
\* ---------------------------------------------------------------------------

\* create_file_groups as a function of its argument: the loop of GroupStep
\* followed by GroupReturn.
RECURSIVE GroupsFrom(_, _, _, _, _, _)
GroupsFrom(ds, i, gs, batch, chars, gid) ==
    IF i > Len(ds)
    THEN IF batch # <<>>
         THEN Append(gs, FileGroup(batch, gid, TokensOf(chars)))
         ELSE gs
    ELSE LET content_len == ContentLen(ds[i])
             diff == [ds[i] EXCEPT !.tokens = TokensOf(content_len)]
             overflow == Overflows(batch, chars, content_len)
         IN  GroupsFrom(ds, i + 1,
                        IF overflow
                        THEN Append(gs, FileGroup(batch, gid, TokensOf(chars)))
                        ELSE gs,
                        BatchAfter(batch, diff, overflow),
                        (IF overflow THEN 0 ELSE chars) + content_len,
                        IF overflow THEN gid + 1 ELSE gid)

CreateFileGroups(ds) == GroupsFrom(ds, 1, <<>>, <<>>, 0, 1)

\* _filter_existing_violations as a function: the violations of the returned result.
FilterExisting(violations, existing) ==
    IF existing = <<>> THEN violations
    ELSE KeepNewViolations(violations, existing, <<>>)

\* The fetch error is not handled and ends the run.
HandlesNoFetchError(outcome) == FALSE

\* except VCSFetchCommentsError: existing_comments = []
HandlesFetchError(outcome) == outcome = "VCSFetchCommentsError"

\* 1. Fetch diffs; "if not diffs: return".
EngineGetDiff ==
    /\ eng_pc = "get_diff"
    /\ eng_pc' = IF eng_diffs = <<>> THEN "complete" ELSE "get_comments"
    /\ UNCHANGED <<eng_diffs, eng_fetch, eng_server_comments, eng_existing_comments,
                   eng_groups, eng_idx, eng_result, eng_llm_calls,
                   eng_original_total, eng_filtered_total, eng_success, eng_error>>
    /\ UNCHANGED publishVars
    /\ UNCHANGED earlyVars

\* 1b. Fetch existing comments (non-blocking).
EngineGetComments ==
    /\ eng_pc = "get_comments"
    /\ IF eng_fetch = "ok"
       THEN /\ eng_existing_comments' = eng_server_comments
            /\ eng_pc' = "prepare"
            /\ UNCHANGED eng_error
       ELSE IF HandlesFetchError(eng_fetch)
       THEN /\ eng_existing_comments' = <<>>
            /\ eng_pc' = "prepare"
            /\ UNCHANGED eng_error
       ELSE /\ eng_error' = eng_fetch
            /\ eng_pc' = "aborted"
            /\ UNCHANGED eng_existing_comments
    /\ UNCHANGED <<eng_diffs, eng_fetch, eng_server_comments, eng_groups, eng_idx,
                   eng_result, eng_llm_calls, eng_original_total,
                   eng_filtered_total, eng_success>>
    /\ UNCHANGED publishVars
    /\ UNCHANGED earlyVars

\* 2. Prepare chunks.
EnginePrepareChunks ==
    /\ eng_pc = "prepare"
    /\ eng_groups' = CreateFileGroups(eng_diffs)
    /\ eng_pc' = "loop"
    /\ UNCHANGED <<eng_diffs, eng_fetch, eng_server_comments, eng_existing_comments,
                   eng_idx, eng_result, eng_llm_calls, eng_original_total,
                   eng_filtered_total, eng_success, eng_error>>
    /\ UNCHANGED publishVars
    /\ UNCHANGED earlyVars

MaxEngineDiffs == 2

\* The LLM reports a violation next to the existing comment, one far from
\* it, or both.
EngineViolationInputs ==
    { ReportedViolation(<<"a">>, n, <<"a", "/", "a">>, <<"a">>, "high") : n \in {5, 30} }

\* 3. One iteration of "for group in groups" up to the call of
\* _process_results: the LLM call and the duplicate filter.
EngineAnalyseGroup ==
    /\ eng_pc = "loop"
    /\ eng_idx <= Len(eng_groups)
    /\ \E result \in SeqsUpTo(EngineViolationInputs, MaxPublish) :
          /\ eng_result' = result
          /\ eng_original_total' = eng_original_total + Len(result)
          /\ pub_violations' = FilterExisting(result, eng_existing_comments)
    /\ eng_llm_calls' = eng_llm_calls + 1
    /\ pub_pc' = "loop"
    /\ pub_mode' = "engine"
    /\ pub_idx' = 1
    /\ pub_attempts' = <<>>
    /\ pub_posted_count' = 0
    /\ pub_return' = 0
    /\ eng_pc' = "publishing"
    /\ UNCHANGED <<eng_diffs, eng_fetch, eng_server_comments, eng_existing_comments,
                   eng_groups, eng_idx, eng_filtered_total, eng_success, eng_error>>
    /\ UNCHANGED earlyVars

\* _process_results returned: total_filtered_violations += violations_count.
EngineAfterPublish ==
    /\ eng_pc = "publishing"
    /\ pub_pc = "returned"
    /\ eng_filtered_total' = eng_filtered_total + pub_return
    /\ eng_idx' = eng_idx + 1
    /\ eng_pc' = "loop"
    /\ pub_pc' = "idle"
    /\ UNCHANGED <<eng_diffs, eng_fetch, eng_server_comments, eng_existing_comments,
                   eng_groups, eng_result, eng_llm_calls, eng_original_total,
                   eng_success, eng_error>>
    /\ UNCHANGED <<pub_mode, pub_violations, pub_idx, pub_attempts,
                   pub_posted_count, pub_return>>
    /\ UNCHANGED earlyVars

\* An exception left _process_results: it leaves run as well.
EngineAbort ==
    /\ eng_pc = "publishing"
    /\ pub_pc = "raised"
    /\ eng_pc' = "aborted"
    /\ pub_pc' = "idle"
    /\ UNCHANGED <<eng_diffs, eng_fetch, eng_server_comments, eng_existing_comments,
                   eng_groups, eng_idx, eng_result, eng_llm_calls,
                   eng_original_total, eng_filtered_total, eng_success, eng_error>>
    /\ UNCHANGED <<pub_mode, pub_violations, pub_idx, pub_attempts,
                   pub_posted_count, pub_return>>
    /\ UNCHANGED earlyVars

\* The success comment is posted when nothing was left to publish.
NothingPublished(original_total, filtered_total) == filtered_total = 0

\* "if total_original_violations == 0"
NothingFound(original_total, filtered_total) == original_total = 0

\* 4. Post success comment if no violations were detected.
EngineSummary ==
    /\ eng_pc = "loop"
    /\ eng_idx > Len(eng_groups)
    /\ IF NothingFound(eng_original_total, eng_filtered_total)
       THEN \E outcome \in GeneralOutcomes :
              IF outcome = "ok"
              THEN eng_success' = "posted" /\ eng_pc' = "complete" /\ UNCHANGED eng_error
              ELSE IF CaughtGeneral(outcome)
              THEN eng_success' = "failed" /\ eng_pc' = "complete" /\ UNCHANGED eng_error
              ELSE eng_success' = "failed" /\ eng_pc' = "aborted" /\ eng_error' = outcome
       ELSE eng_pc' = "complete" /\ UNCHANGED <<eng_success, eng_error>>
    /\ UNCHANGED <<eng_diffs, eng_fetch, eng_server_comments, eng_existing_comments,
                   eng_groups, eng_idx, eng_result, eng_llm_calls,
                   eng_original_total, eng_filtered_total>>
    /\ UNCHANGED publishVars
    /\ UNCHANGED earlyVars

\* A file of one character and a file that fills the budget.
EngineDiffInputs ==
    { FileDiff(<<"a">>, 0, 0), FileDiff(<<"a">>, MAX_CHARS_PER_GROUP - 1, 0) }

\* The server holds an inline comment on line 5 of the file, or none.
EngineServerComments ==
    { <<>>, <<MRComment(Some(<<"a">>), Some(5), None, TRUE)>> }

InitEngine ==
    /\ LoadIdle /\ ReviewIdle /\ UnitsIdle /\ PublishIdle /\ SideIdle
    /\ eng_pc = "get_diff"
    /\ eng_diffs \in SeqsUpTo(EngineDiffInputs, MaxEngineDiffs)
    /\ eng_fetch \in {"ok", "VCSFetchCommentsError"}
    /\ eng_server_comments \in EngineServerComments
    /\ eng_existing_comments = <<>>
    /\ eng_groups = <<>>
    /\ eng_idx = 1
    /\ eng_result = <<>>
    /\ eng_llm_calls = 0
    /\ eng_original_total = 0
    /\ eng_filtered_total = 0
    /\ eng_success = "none"
    /\ eng_error = "none"

NextEngine ==
    \/ EngineGetDiff
    \/ EngineGetComments
    \/ EnginePrepareChunks
    \/ EngineAnalyseGroup
    \/ PostViolation
    \/ PublishReturn
    \/ EngineAfterPublish
    \/ EngineAbort
    \/ EngineSummary

SpecEngine == InitEngine /\ [][NextEngine]_vars

\* ---------------------------------------------------------------------------
\* Properties of ReviewEngine.run and of publishing
\* ---------------------------------------------------------------------------

\* C21: when fetching the existing comments fails with VCSFetchCommentsError
\* the run does not abort on it: it goes on with an empty comment list, the
\* filter hands every violation the LLM returned on to publishing, and a run
\* that completes has issued one LLM call for every batch.
C21_FetchFailureIsNotFatal ==
    (/\ eng_fetch = "VCSFetchCommentsError"
     /\ eng_pc \notin {"idle", "get_diff", "get_comments"}) =>
        /\ eng_error # "VCSFetchCommentsError"
        /\ eng_existing_comments = <<>>
        /\ eng_pc = "publishing" => pub_violations = eng_result
        /\ (eng_pc = "complete" /\ eng_diffs # <<>>) =>
              /\ Len(eng_groups) >= 1
              /\ eng_llm_calls = Len(eng_groups)

\* The fetch failed while the server held a comment on line 5; two batches
\* were analysed and the violation on line 5 was still handed to publishing.
C21_Witness ==
    /\ eng_fetch = "VCSFetchCommentsError"
    /\ eng_server_comments # <<>>
    /\ eng_pc = "complete"
    /\ eng_llm_calls = 2
    /\ Len(eng_result) = 1
    /\ eng_result[1].line_number = 5
    /\ pub_violations = eng_result
    /\ Len(pub_attempts) >= 1

\* The post_comment calls among the attempts, in the order they were made.
InlineAttempts(attempts) ==
    SelectSeq(attempts, LAMBDA a : a.call = "post_comment")

MaxOrcSets == 3
MaxBatches == 3

\* What one llm.generate call found.
OrcResults == {"clean", "violations"}

Pair(set, batch) == [set |-> set, batch |-> batch]

\* The pair after <<s, b>> when every set is reviewed once, on the first batch.
NextPairOncePerSet(s, b, batches) == Pair(s + 1, 1)
\* The pair after <<s, b>>: the next batch of the set, else the next set.
NextPair(s, b, batches) ==
    IF b < batches THEN Pair(s, b + 1) ELSE Pair(s + 1, 1)

\* The run starts: no diffs, no batches, nothing to review.
OrcStart ==
    /\ orc_pc = "start"
    /\ orc_pc' = IF orc_batches = 0 THEN "complete" ELSE "call"
    /\ UNCHANGED <<orc_sets, orc_batches, orc_set_idx, orc_batch_idx,
                   orc_calls, orc_published>>
    /\ UNCHANGED <<fetchVars, cacheVars, textVars>>
    /\ UNCHANGED runVars

\* One blocking llm.generate call for the current set and batch.
OrcGenerate ==
    /\ orc_pc = "call"
    /\ orc_set_idx <= orc_sets
    /\ \E found \in OrcResults :
          orc_calls' = Append(orc_calls,
                              [set |-> orc_set_idx, batch |-> orc_batch_idx,
                               found |-> found])
    /\ orc_pc' = "publish"
    /\ UNCHANGED <<orc_sets, orc_batches, orc_set_idx, orc_batch_idx, orc_published>>
    /\ UNCHANGED <<fetchVars, cacheVars, textVars>>
    /\ UNCHANGED runVars

\* The result of that call is filtered and published, then the loop moves on.
OrcPublish ==
    /\ orc_pc = "publish"
    /\ orc_published' = Append(orc_published, Pair(orc_set_idx, orc_batch_idx))
    /\ LET next == NextPair(orc_set_idx, orc_batch_idx, orc_batches)
       IN /\ orc_set_idx' = next.set
          /\ orc_batch_idx' = next.batch
    /\ orc_pc' = "call"
    /\ UNCHANGED <<orc_sets, orc_batches, orc_calls>>
    /\ UNCHANGED <<fetchVars, cacheVars, textVars>>
    /\ UNCHANGED runVars

\* Every set has been reviewed: the summary step ends the run.
OrcSummary ==
    /\ orc_pc = "call"
    /\ orc_set_idx > orc_sets
    /\ orc_pc' = "complete"
    /\ UNCHANGED <<orc_sets, orc_batches, orc_set_idx, orc_batch_idx,
                   orc_calls, orc_published>>
    /\ UNCHANGED <<fetchVars, cacheVars, textVars>>
    /\ UNCHANGED runVars

InitOrchestrator ==
    /\ LoadIdle /\ ReviewIdle /\ UnitsIdle /\ EngineIdle /\ PublishIdle
    /\ FetchIdle /\ CacheIdle /\ TextIdle
    /\ orc_pc = "start"
    /\ orc_sets \in 0..MaxOrcSets
    /\ orc_batches \in 0..MaxBatches
    /\ orc_set_idx = 1
    /\ orc_batch_idx = 1
    /\ orc_calls = <<>>
    /\ orc_published = <<>>

NextOrchestrator == OrcStart \/ OrcGenerate \/ OrcPublish \/ OrcSummary

SpecOrchestrator == InitOrchestrator /\ [][NextOrchestrator]_vars

\* The i-th pair of the set-major enumeration of sets x batches.
SetMajor(i, batches) == Pair(((i - 1) \div batches) + 1, ((i - 1) % batches) + 1)

VcsSortedNames == << <<"v", "yaml">> >>

\* What vcs.get_codeyak_files does: it returns the files or raises.
FetchOutcomes == {"ok", "Exception", "GitlabGetError"}

\* No exception of the VCS collaborator is caught.
SwallowsNoFetchError(outcome) == FALSE
\* _fetch_yaml_files_from_vcs: every exception of the VCS collaborator is
\* caught and gives the empty list.
SwallowsFetchError(outcome) == outcome # "ok"

\* _fetch_yaml_files_from_vcs and the choice of the source that follows it.
FetchYamlFilesFromVcs ==
    /\ pc = "fetch"
    /\ IF vf_outcome = "ok"
       THEN /\ vf_files' = SelectSeq(VcsSortedNames, LAMBDA n : vcs[n].status # "absent")
            /\ pc' = IF vf_files' # <<>> THEN "vcs" ELSE "start"
            /\ UNCHANGED raised
       ELSE IF SwallowsFetchError(vf_outcome)
       THEN /\ vf_files' = <<>>
            /\ pc' = "start"
            /\ UNCHANGED raised
       ELSE /\ vf_files' = <<>>
            /\ pc' = "failed"
            /\ raised' = Error(vf_outcome, "vcs-fetch", NoId, NoName)
    /\ idx' = 1
    /\ UNCHANGED <<builtin, project, vcs, yaml_files, guideline_sets, all_seen_ids,
                   parse_log, vf_outcome>>
    /\ UNCHANGED <<reviewVars, unitVars, engineVars, publishVars>>
    /\ UNCHANGED <<orcVars, cacheVars, textVars>>

\* The fetched files are loaded as project files: one iteration of the loop.
LoadVcsFile ==
    /\ pc = "vcs"
    /\ idx <= Len(vf_files)
    /\ LET n == vf_files[idx]
           yaml_file == File("vcs", n[1], n[2])
           r == ParseFile(yaml_file, TRUE, {}, 0)
           chk == CheckDuplicateIds(r.guidelines, all_seen_ids, Name("", n[1], n[2]))
       IN /\ parse_log' = parse_log \o r.log
          /\ IF r.err # NoError
             THEN /\ raised' = WrapError(r.err, Name("", n[1], n[2]))
                  /\ pc' = "failed"
                  /\ UNCHANGED <<guideline_sets, all_seen_ids, idx>>
             ELSE IF chk.err # NoError
             THEN /\ raised' = chk.err
                  /\ pc' = "failed"
                  /\ all_seen_ids' = chk.seen
                  /\ UNCHANGED <<guideline_sets, idx>>
             ELSE /\ guideline_sets' =
                        DictPut(guideline_sets, Name("project", n[1], n[2]), r.guidelines)
                  /\ all_seen_ids' = chk.seen
                  /\ idx' = idx + 1
                  /\ UNCHANGED <<raised, pc>>
    /\ UNCHANGED <<builtin, project, vcs, yaml_files>>
    /\ UNCHANGED <<reviewVars, unitVars, lateVars>>

\* The loop over the fetched files is over.
ReturnVcs ==
    /\ pc = "vcs"
    /\ idx > Len(vf_files)
    /\ pc' = "validate"
    /\ UNCHANGED <<builtin, project, vcs, yaml_files, idx, guideline_sets,
                   all_seen_ids, raised, parse_log>>
    /\ UNCHANGED <<reviewVars, unitVars, lateVars>>

InitVcsLoad ==
    /\ builtin \in BuiltinDirs
    /\ project \in ProjectDirs
    /\ project # EmptyProject => builtin["default"] = ShippedDefault
    /\ vcs \in VcsDirs
    /\ pc = "fetch"
    /\ yaml_files = <<>>
    /\ idx = 1
    /\ guideline_sets = <<>>
    /\ all_seen_ids = {}
    /\ raised = NoError
    /\ parse_log = <<>>
    /\ ReviewIdle /\ UnitsIdle /\ EngineIdle /\ PublishIdle
    /\ OrcIdle /\ CacheIdle /\ TextIdle
    /\ vf_outcome \in FetchOutcomes
    /\ vf_files = <<>>

NextVcsLoad ==
    \/ FetchYamlFilesFromVcs
    \/ LoadVcsFile
    \/ ReturnVcs
    \/ Scan
    \/ LoadProjectFile
    \/ ReturnProject
    \/ LoadBuiltinDefault
    \/ Validate

SpecVcsLoad == InitVcsLoad /\ [][NextVcsLoad]_vars

\* C25: when the VCS collaborator raises while the hosted guideline files
\* are listed or fetched, the fetch raises nothing and returns the empty
\* list, no hosted file is read, and the load goes on with the local
\* directory when it holds a YAML file and with the built-in default
\* otherwise.
C25_VcsFailureFallsBack ==
    (vf_outcome # "ok" /\ pc # "fetch") =>
        /\ vf_files = <<>>
        /\ raised.kind # "vcs-fetch"
        /\ raised.type # vf_outcome
        /\ pc # "vcs"
        /\ \A f \in TopLevelFiles : f.dir # "vcs"
        /\ pc = "done" =>
              IF LocalFiles # {} THEN TopLevelFiles = LocalFiles
              ELSE /\ TopLevelFiles # {}
                   /\ \A f \in TopLevelFiles : f.dir = "builtin" /\ f.stem = "default"

\* The hosted directory holds a file, listing it raised, and the load ended
\* with the built-in default.
C25_Witness ==
    /\ vf_outcome = "Exception"
    /\ VcsFiles # {}
    /\ LocalFiles = {}
    /\ pc = "done"
    /\ \E f \in TopLevelFiles : f.dir = "builtin" /\ f.stem = "default"

\* A step of the loop of create_file_groups closes the current group exactly
\* when the group holds a file and its size plus the size of the file at hand
\* is strictly over the budget; nothing but the group so far and that file
\* enters the decision.
ClosesExactlyOnOverflow ==
    (gpc = "loop" /\ diff_idx <= Len(diffs) /\ diff_idx' = diff_idx + 1) =>
        LET size == ContentLen(diffs[diff_idx])
            closing == current_batch # <<>> /\ current_chars + size > MAX_CHARS_PER_GROUP
        IN /\ closing <=> Len(groups') = Len(groups) + 1
           /\ ~closing => /\ groups' = groups
                          /\ Len(current_batch') = Len(current_batch) + 1
           /\ closing => /\ groups'[Len(groups')].files = current_batch
                         /\ Len(current_batch') = 1
           /\ current_chars + size = MAX_CHARS_PER_GROUP => groups' = groups

\* Group ids count from 1 in output order, and the first file of a group did
\* not fit into the group before it.
NumberedAndTight ==
    /\ \A i \in 1..Len(groups) : groups[i].group_id = i
    /\ \A i \in 1..(Len(groups) - 1) :
          SumContentLen(groups[i].files) + ContentLen(groups[i + 1].files[1])
              > MAX_CHARS_PER_GROUP

\* C26: grouping is greedy without look-ahead and numbers the groups from 1
\* in output order: a group is closed before a file exactly when it holds a
\* file and its size plus the file's size is strictly greater than the budget
\* (a sum equal to the budget does not close it), so the size of a group plus
\* the size of the first file of the next group always exceeds the budget.
C26_GreedyGrouping == [][ClosesExactlyOnOverflow]_vars /\ []NumberedAndTight

\* Two files that fill the budget exactly share group 1; a third opens group 2.
C26_Witness ==
    /\ gpc = "returned"
    /\ Len(groups) = 2
    /\ Len(groups[1].files) = 2
    /\ SumContentLen(groups[1].files) = MAX_CHARS_PER_GROUP
    /\ groups[2].group_id = 2

\* The violations of the result for which a call on the VCS client succeeded.
PostedIndices == {pub_attempts[k].index : k \in {j \in 1..Len(pub_attempts) :
                                                     pub_attempts[j].outcome = "ok"}}

\* C27: post_feedback sends only violations of confidence 'high' to the VCS,
\* inline or as a general comment, and returns the number of violations whose
\* inline post or, after LineNotInDiffError, whose general comment succeeded.
C27_OnlyHighConfidencePosted ==
    pub_mode = "feedback" =>
        /\ \A k \in 1..Len(pub_attempts) :
              pub_violations[pub_attempts[k].index].confidence = "high"
        /\ pub_pc = "returned" => pub_return = Cardinality(PostedIndices)

\* Whether s holds sub as a run of consecutive elements.
IsInfix(sub, s) ==
    \E from \in 1..(Len(s) - Len(sub) + 1) : SubSeq(s, from, from + Len(sub) - 1) = sub

\* The general comments attempted for the violation at index i.
GeneralAttempts(i) ==
    SelectSeq(pub_attempts,
              LAMBDA a : a.call = "post_general_comment" /\ a.index = i)

\* C28: an inline post that raises LineNotInDiffError is followed by exactly
\* one general comment for that violation, whose body is to_general_comment
\* and holds the file path, the line number, the guideline id and the
\* reasoning; an inline post that raises VCSCommentError, or succeeds, is
\* followed by none.
C28_FallbackOnlyOnLineNotInDiff ==
    \A k \in 1..Len(pub_attempts) :
        LET a == pub_attempts[k]
            violation == pub_violations[a.index]
        IN a.call = "post_comment" =>
              IF a.outcome = "LineNotInDiffError"
              THEN /\ Len(GeneralAttempts(a.index)) = 1
                   /\ k < Len(pub_attempts)
                   /\ pub_attempts[k + 1] = GeneralAttempts(a.index)[1]
                   /\ pub_attempts[k + 1].arg = ToGeneralComment(violation)
                   /\ IsInfix(violation.file_path, pub_attempts[k + 1].arg)
                   /\ IsInfix(IntToStr(violation.line_number), pub_attempts[k + 1].arg)
                   /\ IsInfix(violation.guideline_id, pub_attempts[k + 1].arg)
                   /\ IsInfix(violation.reasoning, pub_attempts[k + 1].arg)
              ELSE GeneralAttempts(a.index) = <<>>

\* One violation fell back to a general comment, another failed inline with
\* VCSCommentError and was left at that.
C28_Witness ==
    /\ pub_pc = "returned"
    /\ Len(pub_attempts) = 3
    /\ pub_attempts[1].outcome = "LineNotInDiffError"
    /\ pub_attempts[2].call = "post_general_comment"
    /\ pub_attempts[3].call = "post_comment"
    /\ pub_attempts[3].outcome = "VCSCommentError"

\* ---------------------------------------------------------------------------
\* GitLabAdapter (code_reviewer/adapters/vcs/gitlab.py): the merge-request
\* cache behind every operation.
\* ---------------------------------------------------------------------------

MaxAdapterOps == 4

MrIds == {"7", "8"}

\* get_codeyak_files is the operation of the adapter that
\* tests/adapters/vcs/test_gitlab.py exercises next to the three above.
GetCodeyakFilesOp == "get_codeyak_files"
AdapterOps == {"get_diff", "post_comment", "post_general_comment", GetCodeyakFilesOp}

\* What project.mergerequests.get does.
GetOutcomes == {"ok", "GitlabGetError"}

CacheEntry(mr_iid, mr) == [mr_iid |-> mr_iid, mr |-> mr]

\* No lookup ever finds an entry.
IsNeverCached(cache, mr_iid) == FALSE
\* "mr_iid in self._mr_cache"
IsCached(cache, mr_iid) == \E e \in cache : e.mr_iid = mr_iid

\* self._mr_cache[mr_iid]
CachedMr(cache, mr_iid) == (CHOOSE e \in cache : e.mr_iid = mr_iid).mr

\* "self._mr_cache[mr_iid] = ...": the entry of that key is set, the others stay.
CachePut(cache, mr_iid, mr) ==
    {e \in cache : e.mr_iid # mr_iid} \cup {CacheEntry(mr_iid, mr)}

\* One operation of the adapter on a merge request: _get_mr, then the work
\* on the object it returned; an error of the lookup ends the operation.
AdapterOperation ==
    /\ gl_ops < MaxAdapterOps
    /\ \E op \in AdapterOps, mr_iid \in MrIds :
          IF IsCached(gl_cache, mr_iid)
          THEN /\ gl_last' = <<[op |-> op, mr_iid |-> mr_iid,
                                mr |-> CachedMr(gl_cache, mr_iid)]>>
               /\ UNCHANGED <<gl_cache, gl_gets, gl_serial>>
          ELSE \E outcome \in GetOutcomes :
                 /\ gl_gets' = Append(gl_gets, [mr_iid |-> mr_iid, outcome |-> outcome])
                 /\ IF outcome = "ok"
                    THEN /\ gl_cache' = CachePut(gl_cache, mr_iid, gl_serial)
                         /\ gl_serial' = gl_serial + 1
                         /\ gl_last' = <<[op |-> op, mr_iid |-> mr_iid, mr |-> gl_serial]>>
                    ELSE /\ gl_last' = <<[op |-> op, mr_iid |-> mr_iid, mr |-> 0]>>
                         /\ UNCHANGED <<gl_cache, gl_serial>>
    /\ gl_ops' = gl_ops + 1
    /\ UNCHANGED <<orcVars, fetchVars, textVars>>
    /\ UNCHANGED runVars

InitAdapter ==
    /\ LoadIdle /\ ReviewIdle /\ UnitsIdle /\ EngineIdle /\ PublishIdle
    /\ OrcIdle /\ FetchIdle /\ TextIdle
    /\ gl_cache = {}
    /\ gl_gets = <<>>
    /\ gl_serial = 1
    /\ gl_ops = 0
    /\ gl_last = <<>>

NextAdapter == AdapterOperation

SpecAdapter == InitAdapter /\ [][NextAdapter]_vars

\* The server is never asked again for an id it has answered, an operation
\* on a cached id works on the cached object, and there is one entry per id.
FetchedOncePerId ==
    /\ \A i, j \in 1..Len(gl_gets) :
          (i < j /\ gl_gets[i].outcome = "ok") => gl_gets[j].mr_iid # gl_gets[i].mr_iid
    /\ \A e, f \in gl_cache : e.mr_iid = f.mr_iid => e = f
    /\ \A id \in MrIds :
          (\E i \in 1..Len(gl_gets) : gl_gets[i].mr_iid = id /\ gl_gets[i].outcome = "ok")
              <=> (\E e \in gl_cache : e.mr_iid = id)
    /\ (gl_last # <<>> /\ gl_last[1].mr # 0) =>
          CacheEntry(gl_last[1].mr_iid, gl_last[1].mr) \in gl_cache

\* C29: within one adapter instance, whatever the order of get_diff,
\* post_comment, post_general_comment and get_codeyak_files, the merge-request
\* object of an id is not fetched from the server again once a fetch of it
\* has succeeded, later operations on that id work on the cached object, and
\* an entry of the cache is never replaced or removed by a fetch for another id.
C29_MergeRequestFetchedOnce == []FetchedOncePerId /\ [][gl_cache \subseteq gl_cache']_vars

\* Both ids are cached, each fetched once, and later operations made no call.
C29_Witness ==
    /\ gl_ops = 4
    /\ Len(gl_gets) = 2
    /\ Cardinality(gl_cache) = 2
    /\ gl_gets[1].mr_iid # gl_gets[2].mr_iid

\* ---------------------------------------------------------------------------
\* Formatting a violation and parsing the comment back:
\* GuidelineViolation.to_comment / to_general_comment against
\* MRComment.parse_guideline_id / parse_file_and_line, in codeyak/domain and in
\* code_reviewer/core.
\* ---------------------------------------------------------------------------

\* [A-Z]
IsUpperPiece(c) == c = "A"

\* The id group of the two patterns of code_reviewer/core/models.py, a run of
\* capitals, a hyphen and a run of digits followed by two stars and a colon,
\* matched from position from: the end of the group, or 0 without a match.
UpperIdGroupEnd(body, from) ==
    LET ends == { k \in from..Len(body) :
                    /\ k + 2 <= Len(body)
                    /\ body[k + 1] = "**"
                    /\ body[k + 2] = ":"
                    /\ \E j \in from..k :
                          /\ body[j] = "-"
                          /\ j > from
                          /\ j < k
                          /\ (\A q \in from..(j - 1) : IsUpperPiece(body[q]))
                          /\ (\A q \in (j + 1)..k : IsDigit(body[q])) }
    IN  IF ends = {} THEN 0 ELSE CHOOSE k \in ends : TRUE

UpperViolationOfMatches(body) ==
    { i \in 1..Len(body) :
        /\ i + 1 <= Len(body)
        /\ body[i] = "**"
        /\ body[i + 1] = "Violation of "
        /\ UpperIdGroupEnd(body, i + 2) # 0 }

UpperBareIdMatches(body) ==
    { i \in 1..Len(body) :
        /\ body[i] = "**"
        /\ UpperIdGroupEnd(body, i + 1) # 0 }

\* MRComment.parse_guideline_id of code_reviewer/core/models.py
ParseGuidelineIdUpper(body) ==
    IF UpperViolationOfMatches(body) # {}
    THEN LET i == Leftmost(UpperViolationOfMatches(body))
         IN  Some(SubSeq(body, i + 2, UpperIdGroupEnd(body, i + 2)))
    ELSE IF UpperBareIdMatches(body) # {}
    THEN LET i == Leftmost(UpperBareIdMatches(body))
         IN  Some(SubSeq(body, i + 1, UpperIdGroupEnd(body, i + 1)))
    ELSE None

ParseGuidelineIdOf(package, body) ==
    IF package = "codeyak" THEN ParseGuidelineId(body) ELSE ParseGuidelineIdUpper(body)

\* parse_guideline_id(violation.to_comment())
ParseInlineComment ==
    /\ tx_pc = "formatted"
    /\ tx_comment_id' = ParseGuidelineIdOf(tx_package, ToComment(tx_violation))
    /\ tx_pc' = "inline_parsed"
    /\ UNCHANGED <<tx_package, tx_violation, tx_general_id, tx_file_line>>
    /\ UNCHANGED <<orcVars, fetchVars, cacheVars>>
    /\ UNCHANGED runVars

\* parse_guideline_id and parse_file_and_line of violation.to_general_comment()
ParseGeneralComment ==
    /\ tx_pc = "inline_parsed"
    /\ tx_general_id' = ParseGuidelineIdOf(tx_package, ToGeneralComment(tx_violation))
    /\ tx_file_line' = ParseFileAndLine(ToGeneralComment(tx_violation))
    /\ tx_pc' = "parsed"
    /\ UNCHANGED <<tx_package, tx_violation, tx_comment_id>>
    /\ UNCHANGED <<orcVars, fetchVars, cacheVars>>
    /\ UNCHANGED runVars

MaxLine == 12

\* Valid ids of the form prefix/label.
TextIds == { <<"a", "/", "a">>, <<"1", "-", "a", "/", "a">> }

\* File paths without a backtick: plain, with a colon and digits, empty.
TextPaths == { <<"a">>, <<"a", ":", "1">>, <<"a", " ", "a">>, <<>> }

\* Reasoning texts: plain, empty, and texts that quote a comment header.
TextReasonings ==
    { <<"a">>,
      <<>>,
      <<"a", " ", "**", "a", "/", "1", "**", ":">>,
      <<"**", "Violation of ", "1", "/", "1", "**", ":", " ", "a">>,
      <<"**", "Violation of ", "A", "-", "1", "**", ":">>,
      <<"**", "Violation at ", Backtick, "a", ":", "1", Backtick, "**">> }

InitText ==
    /\ LoadIdle /\ ReviewIdle /\ UnitsIdle /\ EngineIdle /\ PublishIdle
    /\ OrcIdle /\ FetchIdle /\ CacheIdle
    /\ tx_pc = "formatted"
    /\ tx_package \in {"codeyak", "code_reviewer"}
    /\ \E id \in TextIds, path \in TextPaths, line \in 0..MaxLine,
          reasoning \in TextReasonings :
          tx_violation = ReportedViolation(path, line, id, reasoning, "high")
    /\ tx_comment_id = <<>>
    /\ tx_general_id = <<>>
    /\ tx_file_line = <<>>

NextText == ParseInlineComment \/ ParseGeneralComment

SpecText == InitText /\ [][NextText]_vars

\* C30: for every violation with a valid prefix/label id, a file path
\* without backtick, a line number of at least 0 and any reasoning,
\* parse_guideline_id gives the violation's id back from to_comment() and
\* from to_general_comment(), and parse_file_and_line gives its file path and
\* line number back from to_general_comment().
C30_FormatParseRoundTrip ==
    /\ tx_pc \in {"inline_parsed", "parsed"} =>
          tx_comment_id = Some(tx_violation.guideline_id)
    /\ tx_pc = "parsed" =>
          /\ tx_general_id = Some(tx_violation.guideline_id)
          /\ tx_file_line = <<Some(tx_violation.file_path),
                               Some(tx_violation.line_number)>>

====
